---- MODULE Spec2Model ----
(***************************************************************************)
(* Model of the AXIS rules engine (AxisRulesEngine, axis-rules.js) of the  *)
(* Single Page Computer repository: priority-sorted rules applied to a     *)
(* JSON state in sweeps until a sweep changes nothing or the iteration cap *)
(* is reached.                                                             *)
(*                                                                         *)
(* JavaScript values are records [t, n, s, o]: t is the kind, n the number *)
(* (or 1/0 for a boolean), s the text of a string as a sequence of         *)
(* lexical tokens, o the entries of an object in insertion order.          *)
(***************************************************************************)
EXTENDS Integers, Sequences, FiniteSets, TLC

\* ------------------------------------------------------------------------
\* Bounds of the model
\* ------------------------------------------------------------------------
MaxRules == 2      \* longest rule list handed to apply
MaxCalls == 2      \* apply calls made on the one engine instance
MaxClock == 1      \* readings the wall clock can advance through
MaxCap == 2        \* the explicitly configured max_iterations

\* ------------------------------------------------------------------------
\* JavaScript values
\* ------------------------------------------------------------------------
Undefined == [t |-> "undefined", n |-> 0, s |-> <<>>, o |-> <<>>]
Null == [t |-> "null", n |-> 0, s |-> <<>>, o |-> <<>>]
NaN == [t |-> "nan", n |-> 0, s |-> <<>>, o |-> <<>>]
Num(i) == [t |-> "number", n |-> i, s |-> <<>>, o |-> <<>>]
Bool(b) == [t |-> "boolean", n |-> IF b THEN 1 ELSE 0, s |-> <<>>, o |-> <<>>]
Str(toks) == [t |-> "string", n |-> 0, s |-> toks, o |-> <<>>]
Obj(entries) == [t |-> "object", n |-> 0, s |-> <<>>, o |-> entries]
\* an array, its elements held under their indices
Arr(entries) == [t |-> "array", n |-> 0, s |-> <<>>, o |-> entries]
\* one of the utilities of createSafeContext; n tells Math and JSON (plain
\* objects, 1) from the constructors and functions (0)
Util(name) == [t |-> "function", n |-> IF name \in {"Math", "JSON"} THEN 1 ELSE 0,
               s |-> <<name>>, o |-> <<>>]
Entry(k, v) == [k |-> k, v |-> v]

\* obj.hasOwnProperty(key)
HasKey(obj, key) == \E i \in 1..Len(obj.o) : obj.o[i].k = key

\* obj[key]; a missing key reads as undefined
Get(obj, key) ==
    IF obj.t \in {"object", "array"} /\ HasKey(obj, key)
    THEN obj.o[CHOOSE i \in 1..Len(obj.o) : obj.o[i].k = key].v
    ELSE Undefined

\* an assignment that leaves a key alone once it holds a value
PutIfAbsent(obj, key, value) ==
    IF HasKey(obj, key) THEN obj ELSE Obj(Append(obj.o, Entry(key, value)))

\* obj[key] = value: an existing key keeps its place, a new key is appended
Put(obj, key, value) ==
    IF HasKey(obj, key)
    THEN [obj EXCEPT !.o = [i \in 1..Len(obj.o) |->
                              IF obj.o[i].k = key THEN Entry(key, value) ELSE obj.o[i]]]
    ELSE [obj EXCEPT !.o = Append(obj.o, Entry(key, value))]

\* ToBoolean
Truthy(v) ==
    CASE v.t \in {"undefined", "null", "nan"} -> FALSE
      [] v.t = "boolean" -> v.n = 1
      [] v.t = "number" -> v.n # 0
      [] v.t = "string" -> v.s # <<>>
      [] OTHER -> TRUE

\* ------------------------------------------------------------------------
\* JSON.stringify / JSON.parse
\* ------------------------------------------------------------------------
\* The JSON text of a value, kept as the value the text denotes: inside an
\* object a property holding undefined or a function is left out, NaN is
\* written as null, Math and JSON are written as {}.
RECURSIVE JSONEntries(_)
JSONValue(v) ==
    CASE v.t = "nan" -> Null
      [] v.t = "function" -> Obj(<<>>)
      [] v.t = "object" -> Obj(JSONEntries(v.o))
      [] OTHER -> v
JSONEntries(es) ==
    IF es = <<>> THEN <<>>
    ELSE LET e == Head(es)
             rest == JSONEntries(Tail(es))
         IN IF e.v.t = "undefined" \/ (e.v.t = "function" /\ e.v.n = 0)
            THEN rest
            ELSE <<Entry(e.k, JSONValue(e.v))>> \o rest

JSONStringify(v) == JSONValue(v)
JSONParse(text) == text
DeepCopy(v) == JSONParse(JSONStringify(v))

\* ------------------------------------------------------------------------
\* Strings
\* ------------------------------------------------------------------------
Digit == <<"0", "1", "2", "3", "4", "5", "6", "7", "8", "9">>

\* Number.prototype.toString of an integer
RECURSIVE NatStr(_)
NatStr(i) == IF i < 10 THEN Digit[i + 1] ELSE NatStr(i \div 10) \o Digit[(i % 10) + 1]
IntStr(i) == IF i < 0 THEN "-" \o NatStr(0 - i) ELSE NatStr(i)

\* the numeric literals an expression can contain
MaxLiteral == 10
IsNumTok(tok) == \E i \in 0..MaxLiteral : NatStr(i) = tok
NumOfTok(tok) == CHOOSE i \in 0..MaxLiteral : NatStr(i) = tok

\* String.prototype.includes, for a one-token needle
Includes(str, tok) == \E i \in 1..Len(str) : str[i] = tok

\* String.prototype.trim
RECURSIVE TrimLeft(_)
TrimLeft(str) == IF str # <<>> /\ Head(str) = " " THEN TrimLeft(Tail(str)) ELSE str
RECURSIVE TrimRight(_)
TrimRight(str) ==
    IF str # <<>> /\ str[Len(str)] = " " THEN TrimRight(SubSeq(str, 1, Len(str) - 1)) ELSE str
Trim(str) == TrimRight(TrimLeft(str))

\* index of the first tok at or after position from, 0 when there is none
RECURSIVE IndexFrom(_, _, _)
IndexFrom(str, tok, from) ==
    IF from > Len(str) THEN 0
    ELSE IF str[from] = tok THEN from ELSE IndexFrom(str, tok, from + 1)

\* template.replace(/\{\{(.*?)\}\}/g, '$1'): every leftmost, shortest
\* {{ ... }} is replaced by what it encloses; text outside a match stays
RECURSIVE StripBraces(_)
StripMatch(str, open, close) ==
    IF open = 0 \/ close = 0 THEN str
    ELSE SubSeq(str, 1, open - 1) \o SubSeq(str, open + 1, close - 1)
         \o StripBraces(SubSeq(str, close + 1, Len(str)))
StripFrom(str, open) ==
    StripMatch(str, open, IF open = 0 THEN 0 ELSE IndexFrom(str, "}}", open + 1))
StripBraces(str) == StripFrom(str, IndexFrom(str, "{{", 1))

\* white space between the lexical tokens of an expression
RECURSIVE Lex(_)
Lex(str) ==
    IF str = <<>> THEN <<>>
    ELSE IF Head(str) = " " THEN Lex(Tail(str)) ELSE <<Head(str)>> \o Lex(Tail(str))

\* ------------------------------------------------------------------------
\* Evaluation context
\* ------------------------------------------------------------------------
Utilities == <<"Math", "Date", "parseInt", "parseFloat", "String", "Number",
               "Boolean", "Array", "JSON">>

\* newKey.replace(/\./g, '_') of the dot-joined path
RECURSIVE JoinUnderscore(_)
JoinUnderscore(path) ==
    IF Len(path) = 1 THEN path[1] ELSE path[1] \o "_" \o JoinUnderscore(Tail(path))

\* Object.assign(target, source) / spread of source into target
RECURSIVE Assign(_, _)
Assign(target, es) ==
    IF es = <<>> THEN target ELSE Assign(Put(target, Head(es).k, Head(es).v), Tail(es))

\* a test that takes an array for an object to go into
IsObjectOrArray(v) == v.t \in {"object", "array"}

\* typeof obj[key] === 'object' && obj[key] !== null && !Array.isArray(obj[key])
IsNestedObject(v) == v.t = "object"

RECURSIVE flattenEntries(_, _)
flattenObject(obj, prefix) == flattenEntries(obj.o, prefix)
flattenEntries(es, prefix) ==
    IF es = <<>> THEN Obj(<<>>)
    ELSE LET e == Head(es)
             newKey == Append(prefix, e.k)
             here == IF IsNestedObject(e.v)
                     THEN flattenObject(e.v, newKey)
                     ELSE Obj(<<Entry(JoinUnderscore(newKey), e.v)>>)
         IN Assign(here, flattenEntries(Tail(es), prefix).o)

RECURSIVE UtilEntries(_)
UtilEntries(names) ==
    IF names = <<>> THEN <<>>
    ELSE <<Entry(Head(names), Util(Head(names)))>> \o UtilEntries(Tail(names))

\* a context in which the utilities come first and the state is spread last
createSafeContextStateLast(context) ==
    Assign(Assign(Obj(UtilEntries(Utilities)), flattenObject(context, <<>>).o), context.o)

createSafeContext(context) ==
    Assign(Assign(flattenObject(context, <<>>), context.o), UtilEntries(Utilities))

\* ------------------------------------------------------------------------
\* new Function(...Object.keys(ctx), `return ${expression}`)(...values)
\* for expressions of the forms  x,  !x,  x + y,  x * y,  x < y  over
\* numeric literals, true/false/null/undefined and identifiers; any other
\* token sequence is a SyntaxError and an unbound identifier a
\* ReferenceError.  The outcome is [ok, v]: ok = FALSE is a throw, of the
\* value v.  One more operand is a call that throws the value null.
\* ------------------------------------------------------------------------
\* the Error object the engine of the language throws
ErrorValue == Obj(<<Entry("message", Str(<<"error">>))>>)
Threw == [ok |-> FALSE, v |-> ErrorValue]
Thrown(v) == [ok |-> FALSE, v |-> v]
Returned(v) == [ok |-> TRUE, v |-> v]

\* an expression whose evaluation throws null
ThrowNull == "(() => { throw null })()"

Operators == {"!", "+", "*", "<"}

Operand(tok, ctx) ==
    CASE IsNumTok(tok) -> Returned(Num(NumOfTok(tok)))
      [] tok = "true" -> Returned(Bool(TRUE))
      [] tok = "false" -> Returned(Bool(FALSE))
      [] tok = "null" -> Returned(Null)
      [] tok \in Operators -> Threw
      [] tok = ThrowNull -> Thrown(Null)
      [] HasKey(ctx, tok) -> Returned(Get(ctx, tok))
      [] tok = "undefined" -> Returned(Undefined)
      [] OTHER -> Threw

ToNumber(v) ==
    CASE v.t = "number" -> v
      [] v.t = "boolean" -> Num(v.n)
      [] v.t = "null" -> Num(0)
      [] v.t = "string" /\ v.s = <<>> -> Num(0)
      [] v.t = "string" /\ Len(v.s) = 1 /\ IsNumTok(v.s[1]) -> Num(NumOfTok(v.s[1]))
      [] OTHER -> NaN

JSToString(v) ==
    CASE v.t = "string" -> v.s
      [] v.t = "number" -> <<IntStr(v.n)>>
      [] v.t = "boolean" -> IF v.n = 1 THEN <<"true">> ELSE <<"false">>
      [] v.t = "null" -> <<"null">>
      [] v.t = "undefined" -> <<"undefined">>
      [] v.t = "nan" -> <<"NaN">>
      [] v.t = "object" -> <<"[object Object]">>
      [] OTHER -> <<"[object ", v.s[1], "]">>

Primitive(v) == IF v.t \in {"object", "function"} THEN Str(JSToString(v)) ELSE v

\* + that always concatenates the texts of its operands
PlusConcat(l, r) == Str(JSToString(Primitive(l)) \o JSToString(Primitive(r)))

\* a + b of primitives, with ToNumber(a) = na and ToNumber(b) = nb
PlusPrimitives(a, b, na, nb) ==
    IF a.t = "string" \/ b.t = "string" THEN Str(JSToString(a) \o JSToString(b))
    ELSE IF na.t = "nan" \/ nb.t = "nan" THEN NaN
    ELSE Num(na.n + nb.n)

Plus(l, r) ==
    PlusPrimitives(Primitive(l), Primitive(r), ToNumber(Primitive(l)), ToNumber(Primitive(r)))

TimesNumbers(a, b) == IF a.t = "nan" \/ b.t = "nan" THEN NaN ELSE Num(a.n * b.n)
Times(l, r) == TimesNumbers(ToNumber(Primitive(l)), ToNumber(Primitive(r)))

\* relational comparison of operands that are not both strings
LessNumbers(a, b) == IF a.t = "nan" \/ b.t = "nan" THEN Bool(FALSE) ELSE Bool(a.n < b.n)
Less(l, r) == LessNumbers(ToNumber(Primitive(l)), ToNumber(Primitive(r)))

Not(x) == IF x.ok THEN Returned(Bool(~Truthy(x.v))) ELSE x

Binary(op, x, y) ==
    IF ~x.ok THEN x
    ELSE IF ~y.ok THEN y
    ELSE CASE op = "+" -> Returned(Plus(x.v, y.v))
           [] op = "*" -> Returned(Times(x.v, y.v))
           [] OTHER -> Returned(Less(x.v, y.v))

EvaluateTokens(toks, ctx) ==
    CASE toks = <<>> -> Returned(Undefined)
      [] Len(toks) = 1 -> Operand(toks[1], ctx)
      [] Len(toks) = 2 /\ toks[1] = "!" -> Not(Operand(toks[2], ctx))
      [] Len(toks) = 3 /\ toks[2] \in {"+", "*", "<"} ->
           Binary(toks[2], Operand(toks[1], ctx), Operand(toks[3], ctx))
      [] OTHER -> Threw

Evaluate(expression, ctx) == EvaluateTokens(Lex(expression), ctx)


\* ------------------------------------------------------------------------
\* Audit trail
\* ------------------------------------------------------------------------
\* this.log(message, level): the entry appended to the audit trail (its
\* timestamp, which nothing reads, is left out)
log(audit, message, level) == Append(audit, [level |-> level, message |-> message])

\* entry.message.startsWith('Applied:')
IsApplied(entry) == entry.message # <<>> /\ entry.message[1] = "Applied:"

\* entry.message.replace('Applied: ', '')
StripApplied(message) ==
    IF \E i \in 1..(Len(message) - 1) : message[i] = "Applied:" /\ message[i + 1] = " "
    THEN LET i == CHOOSE j \in 1..(Len(message) - 1) :
                    /\ message[j] = "Applied:" /\ message[j + 1] = " "
                    /\ \A h \in 1..(j - 1) : ~(message[h] = "Applied:" /\ message[h + 1] = " ")
         IN SubSeq(message, 1, i - 1) \o SubSeq(message, i + 2, Len(message))
    ELSE message

\* the audit messages without the filter on 'Applied:'
RECURSIVE getRulesAppliedUnfiltered(_)
getRulesAppliedUnfiltered(audit) ==
    IF audit = <<>> THEN <<>>
    ELSE <<StripApplied(Head(audit).message)>> \o getRulesAppliedUnfiltered(Tail(audit))

RECURSIVE getRulesApplied(_)
getRulesApplied(audit) ==
    IF audit = <<>> THEN <<>>
    ELSE IF IsApplied(Head(audit))
         THEN <<StripApplied(Head(audit).message)>> \o getRulesApplied(Tail(audit))
         ELSE getRulesApplied(Tail(audit))

\* ------------------------------------------------------------------------
\* Conditions and templates
\* ------------------------------------------------------------------------
\* e.message in a catch block: reading a property of null or undefined is
\* a TypeError, thrown from inside the handler
MessageRaises(e) == e.t \in {"null", "undefined"}

\* evaluateCondition(condition, context): [result, audit, raised]; raised
\* tells that an error left the method
\* the try/catch around the evaluation r of the condition
ConditionOutcome(r, condition, audit) ==
    IF r.ok THEN [result |-> Truthy(r.v), audit |-> audit, raised |-> FALSE]
    ELSE IF MessageRaises(r.v) THEN [result |-> FALSE, audit |-> audit, raised |-> TRUE]
    ELSE [result |-> FALSE,
          audit |-> log(audit, <<"Condition evaluation failed:", " ">>
                                \o JSToString(condition) \o <<" ", "-", " ">>
                                \o JSToString(Get(r.v, "message")), "error"),
          raised |-> FALSE]

evaluateCondition(condition, context, audit) ==
    IF ~Truthy(condition) THEN [result |-> TRUE, audit |-> audit, raised |-> FALSE]
    ELSE ConditionOutcome(Evaluate(JSToString(condition), createSafeContext(context)),
                          condition, audit)

\* new Date().toISOString() at clock reading now
ISOString(now) == <<"1970-01-01T00:00:00.00" \o NatStr(now) \o "Z">>

\* the string built by the uuid() builtin on its k-th draw of random digits
UUIDString(k) == <<"uuid-" \o NatStr(k)>>

\* resolveValue(template, context) at clock reading env.now, with env.uuids
\* uuids drawn so far: [value, audit, uuids, raised]
\* the try/catch around the evaluation r of the template's expression
TemplateOutcome(r, template, audit, env) ==
    IF r.ok
    THEN [value |-> r.v, audit |-> audit, uuids |-> env.uuids, raised |-> FALSE]
    ELSE IF MessageRaises(r.v)
    THEN [value |-> template, audit |-> audit, uuids |-> env.uuids, raised |-> TRUE]
    ELSE [value |-> template,
          audit |-> log(audit, <<"Template resolution failed:", " ">> \o template.s
                                \o <<" ", "-", " ">> \o JSToString(Get(r.v, "message")),
                        "error"),
          uuids |-> env.uuids, raised |-> FALSE]

\* the builtins, then the evaluation of the expression
ResolveExpression(expression, template, context, audit, env) ==
    CASE expression = <<"now()">> ->
           [value |-> Str(ISOString(env.now)), audit |-> audit, uuids |-> env.uuids,
            raised |-> FALSE]
      [] expression = <<"timestamp()">> ->
           [value |-> Num(env.now), audit |-> audit, uuids |-> env.uuids,
            raised |-> FALSE]
      [] expression = <<"uuid()">> ->
           [value |-> Str(UUIDString(env.uuids + 1)), audit |-> audit,
            uuids |-> env.uuids + 1, raised |-> FALSE]
      [] OTHER ->
           TemplateOutcome(Evaluate(expression, createSafeContext(context)),
                           template, audit, env)

resolveValue(template, context, audit, env) ==
    IF template.t # "string"
    THEN [value |-> template, audit |-> audit, uuids |-> env.uuids, raised |-> FALSE]
    ELSE IF Includes(template.s, "{{") /\ Includes(template.s, "}}")
    THEN ResolveExpression(Trim(StripBraces(template.s)), template, context, audit, env)
    ELSE [value |-> template, audit |-> audit, uuids |-> env.uuids, raised |-> FALSE]

\* ------------------------------------------------------------------------
\* Path writer
\* ------------------------------------------------------------------------
RECURSIVE Concat(_)
Concat(toks) == IF toks = <<>> THEN "" ELSE Head(toks) \o Concat(Tail(toks))

\* path.split('.')
RECURSIVE Split(_)
SplitAt(path, dot) ==
    IF dot = 0 THEN <<Concat(path)>>
    ELSE <<Concat(SubSeq(path, 1, dot - 1))>> \o Split(SubSeq(path, dot + 1, Len(path)))
Split(path) == SplitAt(path, IndexFrom(path, ".", 1))

\* a walk that puts a new object in the place of an array as well
StepIntoMapping(held) == IF ~Truthy(held) \/ held.t # "object" THEN Obj(<<>>) ELSE held

\* the object the walk steps into at a segment holding held:
\* if (!current[keys[i]] || typeof current[keys[i]] !== 'object')
\* current[keys[i]] = {}; an array, being of type 'object', stays
StepInto(held) ==
    IF ~Truthy(held) \/ held.t \notin {"object", "array"} THEN Obj(<<>>) ELSE held

RECURSIVE SetKeys(_, _, _)
SetKeys(obj, keys, value) ==
    IF Len(keys) = 1 THEN Put(obj, keys[1], value)
    ELSE Put(obj, keys[1], SetKeys(StepInto(Get(obj, keys[1])), Tail(keys), value))

setNestedPath(obj, path, value) == SetKeys(obj, Split(path), value)

\* two paths of which one is a proper prefix of the other
Overlap(p, q) ==
    LET a == Split(p)
        b == Split(q)
    IN /\ Len(a) # Len(b)
       /\ \A i \in 1..(IF Len(a) < Len(b) THEN Len(a) ELSE Len(b)) : a[i] = b[i]

\* ------------------------------------------------------------------------
\* Rule application
\* ------------------------------------------------------------------------
\* one pass of the loop over Object.entries(transformations); acc carries
\* newState, the sweep's write log, the conflict log, the audit trail, the
\* number of uuids drawn and the values the sweep has set (a write through
\* a prefix or an extension of a path ends what was set at that path); an
\* error that left resolveValue ends the loop before anything is recorded
WriteEntry(path, r, acc, ruleName, iter, conflict, previousRule) ==
    IF r.raised THEN [acc EXCEPT !.raised = TRUE]
    ELSE
    [newState |-> setNestedPath(acc.newState, path, r.value),
     changes |-> Put(acc.changes, path, ruleName),
     conflicts |->
       IF conflict
       THEN Append(acc.conflicts,
              [field |-> path, previousRule |-> previousRule,
               currentRule |-> ruleName, resolution |-> "priority_override",
               iteration |-> iter])
       ELSE acc.conflicts,
     audit |->
       IF conflict
       THEN log(r.audit, <<"Conflict:", " ">> \o JSToString(previousRule)
                  \o <<" vs ">> \o JSToString(ruleName) \o <<" on ">> \o path
                  \o <<" -> ">> \o JSToString(ruleName) \o <<" wins">>, "warning")
       ELSE r.audit,
     uuids |-> r.uuids,
     written |-> Put(Obj(SelectSeq(acc.written.o, LAMBDA e : ~Overlap(e.k, path))),
                     path, r.value),
     raised |-> FALSE]

\* a conflict test that passes over an earlier write of the same rule name
HasConflictOtherRule(changes, path, ruleName) ==
    HasKey(changes, path) /\ Get(changes, path) # ruleName

\* if (iterationChanges.has(path))
HasConflict(changes, path, ruleName) == HasKey(changes, path)

\* one turn of the loop over Object.entries(transformations), the clock
\* reading now when the value is resolved
TransformEntry(e, acc, ruleName, iter, now) ==
    WriteEntry(e.k,
               resolveValue(e.v, acc.newState, acc.audit, [now |-> now, uuids |-> acc.uuids]),
               acc, ruleName, iter, HasConflict(acc.changes, e.k, ruleName),
               Get(acc.changes, e.k))

\* the loop over the entries; readings holds, entry by entry, what the clock
\* reads when the value of the entry is resolved
RECURSIVE TransformEntries(_, _, _, _, _)
TransformEntries(es, acc, ruleName, iter, readings) ==
    IF es = <<>> \/ acc.raised THEN acc
    ELSE TransformEntries(Tail(es),
                          TransformEntry(Head(es), acc, ruleName, iter, Head(readings)),
                          ruleName, iter, Tail(readings))

\* transformations whose values are all resolved against the state the
\* rule started from
RECURSIVE TransformEntriesOnState(_, _, _, _, _, _)
TransformEntriesOnState(es, state, acc, ruleName, iter, readings) ==
    IF es = <<>> \/ acc.raised THEN acc
    ELSE TransformEntriesOnState(Tail(es), state,
           WriteEntry(Head(es).k,
                      resolveValue(Head(es).v, state, acc.audit,
                                   [now |-> Head(readings), uuids |-> acc.uuids]),
                      acc, ruleName, iter, HasConflict(acc.changes, Head(es).k, ruleName),
                      Get(acc.changes, Head(es).k)),
           ruleName, iter, Tail(readings))

applyTransformationsOnOldState(state, transformations, ruleName, acc, iter, readings) ==
    TransformEntriesOnState(transformations.o, state,
                            [acc EXCEPT !.newState = DeepCopy(state)], ruleName, iter,
                            readings)

\* applyTransformationsWithTracking(state, transformations, ruleName,
\* iterationChanges), run in sweep iter, the clock reading readings[i] when
\* the value of entry i is resolved
applyTransformationsWithTracking(state, transformations, ruleName, acc, iter, readings) ==
    TransformEntries(transformations.o,
                     [acc EXCEPT !.newState = DeepCopy(state)], ruleName, iter, readings)


\* ------------------------------------------------------------------------
\* Rules, rule sets and input states handed to the engine
\* ------------------------------------------------------------------------
Rule(name, priority, cond, then) ==
    [name |-> Str(<<name>>), priority |-> priority, if |-> cond, then |-> then,
     else |-> Undefined]

RuleDouble ==
    Rule("double", Num(1), Str(<<"a", " ", "<", " ", "10">>),
         Obj(<<Entry(<<"a">>, Str(<<"{{", " ", "a", " ", "*", " ", "2", " ", "}}">>))>>))
RuleA == Rule("A", Num(1), Bool(TRUE), Obj(<<Entry(<<"x">>, Num(1))>>))
RuleB == Rule("B", Num(2), Bool(TRUE), Obj(<<Entry(<<"x">>, Num(2))>>))
RuleR1 == Rule("r1", Num(1), Bool(TRUE), Obj(<<Entry(<<"status">>, Str(<<"A">>))>>))
RuleR2 == Rule("r2", Num(2), Bool(TRUE), Obj(<<Entry(<<"status">>, Str(<<"B">>))>>))
RuleToggle ==
    Rule("toggle", Undefined, Undefined,
         Obj(<<Entry(<<"flag">>, Str(<<"{{", " ", "!", "flag", " ", "}}">>))>>))
RuleLit ==
    Rule("lit", Num(0), Undefined,
         Obj(<<Entry(<<"msg">>, Str(<<"plain", " ", "text">>)),
               Entry(<<"n">>, Str(<<"{{", " ", "1", " ", "+", " ", "1", " ", "}}">>)),
               Entry(<<"user", ".", "level">>, Num(7))>>))
RuleStamp ==
    Rule("stamp", Num(3), Str(<<"true">>),
         Obj(<<Entry(<<"ts">>, Str(<<"{{", "now()", "}}">>))>>))
RuleWipe ==
    Rule("wipe", Num(4), Str(<<"user_level", " ", "<", " ", "10">>),
         Obj(<<Entry(<<"user", ".", "level">>, Str(<<"{{", "x", "}}">>)),
               Entry(<<"user">>, Str(<<"{{", " ", "uuid()", " ", "}}">>))>>))

\* a rule whose condition is the literal false
RuleNever == Rule("never", Num(1), Bool(FALSE), Obj(<<Entry(<<"blocked">>, Bool(TRUE))>>))
\* rules whose conditions fail: an unbound name, a syntax error, a thrown null
RuleGuarded ==
    Rule("guarded", Num(1), Str(<<"missing", " ", "<", " ", "1">>),
         Obj(<<Entry(<<"x">>, Num(9))>>))
RuleSyntax ==
    Rule("syntax", Num(1), Str(<<"x", " ", "<">>), Obj(<<Entry(<<"x">>, Num(9))>>))
RuleThrows ==
    Rule("throws", Num(2), Str(<<ThrowNull>>), Obj(<<Entry(<<"x">>, Num(9))>>))
\* templates inside a longer string, and a template that fails
RuleEmbed ==
    Rule("embed", Num(1), Undefined,
         Obj(<<Entry(<<"label">>, Str(<<"Result:", " ", "{{", "x", "}}">>)),
               Entry(<<"sum">>, Str(<<"{{", "x", "}}", " ", "+", " ", "{{", " ", "1", " ", "}}">>)),
               Entry(<<"bad">>, Str(<<"{{", " ", "missing", " ", "}}">>)),
               Entry(<<"after">>, Num(5))>>))
\* a template whose evaluation throws null
RuleThrowT ==
    Rule("thrower", Num(2), Undefined,
         Obj(<<Entry(<<"first">>, Num(1)),
               Entry(<<"t">>, Str(<<"{{", " ", ThrowNull, " ", "}}">>)),
               Entry(<<"after">>, Num(5))>>))

RulePool == {RuleToggle, RuleLit, RuleStamp, RuleWipe}

\* the rule lists of at most MaxRules different rules of the pool
RuleLists ==
    UNION {{list \in [1..len -> RulePool] :
              \A h \in 1..len : \A k \in 1..len : list[h] = list[k] => h = k} :
           len \in 0..MaxRules}

\* the values of rulesConfig.max_iterations: absent, or an explicit cap
Caps == {Undefined, Num(MaxCap)}

\* rulesConfig: rules holds the elements when rulesConfig.rules is an
\* array; rulesType tells an array from a missing rules property
\* (undefined), from null and from a number other than 0
Config(cap, rules) == [max_iterations |-> cap, rules |-> rules, rulesType |-> "array"]
NoRuleList(cap, type) == [max_iterations |-> cap, rules |-> <<>>, rulesType |-> type]

Configs == {Config(cap, rules) : cap \in Caps, rules \in RuleLists}

Inputs == {Obj(<<>>),
           Obj(<<Entry("flag", Bool(TRUE)), Entry("x", Num(2)),
                 Entry("user", Obj(<<Entry("level", Num(3))>>))>>)}

\* rule lists with a false condition, with failing conditions, with
\* embedded and failing templates, and with one rule listed twice
FailureLists ==
    {<<RuleNever>>, <<RuleGuarded, RuleSyntax, RuleToggle>>, <<RuleA, RuleThrows>>,
     <<RuleEmbed>>, <<RuleA, RuleThrowT>>, <<RuleLit, RuleLit>>}

\* a rule without a then clause, listed before a rule that writes literals
RuleBare == Rule("bare", Num(1), Bool(TRUE), Undefined)
NoOpLists == {<<RuleBare, RuleLit>>}

\* a rule whose later then entries read what its earlier entries write
RuleChain ==
    Rule("chain", Num(1), Undefined,
         Obj(<<Entry(<<"p">>, Num(5)),
               Entry(<<"q">>, Str(<<"{{", " ", "p", " ", "+", " ", "1", " ", "}}">>)),
               Entry(<<"r">>, Str(<<"{{", " ", "q", " ", "*", " ", "2", " ", "}}">>))>>))
ChainLists == {<<RuleChain>>}

\* a rule that writes below a path and then the path itself
RuleNest ==
    Rule("nest", Num(1), Undefined,
         Obj(<<Entry(<<"box", ".", "size">>, Num(7)), Entry(<<"box">>, Num(5))>>))
NestLists == {<<RuleNest>>}

\* a rule that reads the clock twice, once for each entry
RuleStampTwice ==
    Rule("stamps", Num(3), Str(<<"true">>),
         Obj(<<Entry(<<"ts">>, Str(<<"{{", "now()", "}}">>)),
               Entry(<<"at">>, Str(<<"{{", " ", "timestamp()", " ", "}}">>))>>))
StampLists == {<<RuleStampTwice>>}

\* rulesConfig.max_iterations configured as 0, which || 10 replaces by the
\* default, and as a negative number, which it keeps
ZeroCap == Num(0)
NegativeCap == Num(0 - 1)
OddCaps == {ZeroCap, NegativeCap}

\* the rule lists run under these caps: none, one that settles, one that
\* never does
OddCapLists == {<<>>, <<RuleLit>>, <<RuleToggle>>}

\* the sample scenarios: the doubling rule on {a: 1} with its explicit cap
\* of 10, r1 and r2 on {}, the rules A and B in either list order, the
\* failure lists, and configurations whose rules property is no array
DoublingConfig == Config(Num(10), <<RuleDouble>>)

ScenarioCalls ==
    {<<Obj(<<Entry("a", Num(1))>>), DoublingConfig>>}
    \cup ({Obj(<<>>)} \X {Config(cap, <<RuleR1, RuleR2>>) : cap \in Caps})
    \cup (Inputs \X {Config(cap, rules) : cap \in Caps,
                                          rules \in {<<RuleA, RuleB>>, <<RuleB, RuleA>>}})
    \cup (Inputs \X {Config(cap, rules) : cap \in Caps,
                                          rules \in FailureLists \cup NoOpLists
                                                     \cup ChainLists \cup NestLists
                                                     \cup StampLists})
    \cup (Inputs \X {NoRuleList(cap, type) : cap \in Caps,
                                              type \in {"undefined", "null", "number"}})
    \cup (Inputs \X {Config(cap, rules) : cap \in OddCaps, rules \in OddCapLists})

\* what a caller passes on its first call
FirstCalls == (Inputs \X Configs) \cup ScenarioCalls

\* ------------------------------------------------------------------------
\* Sorting
\* ------------------------------------------------------------------------
DefaultPriority == 999

\* (rule.priority || 999)
SortKey(rule) == IF Truthy(rule.priority) THEN rule.priority.n ELSE DefaultPriority

\* insertion under the reversed comparator (b.priority - a.priority)
RECURSIVE InsertSortedDescending(_, _, _)
InsertSortedDescending(sorted, i, rules) ==
    IF sorted = <<>> THEN <<i>>
    ELSE IF SortKey(rules[Head(sorted)]) - SortKey(rules[i]) < 0
         THEN <<i>> \o sorted
         ELSE <<Head(sorted)>> \o InsertSortedDescending(Tail(sorted), i, rules)

\* stable insertion of index i into the sorted index list
RECURSIVE InsertSorted(_, _, _)
InsertSorted(sorted, i, rules) ==
    IF sorted = <<>> THEN <<i>>
    ELSE IF SortKey(rules[i]) - SortKey(rules[Head(sorted)]) < 0
         THEN <<i>> \o sorted
         ELSE <<Head(sorted)>> \o InsertSorted(Tail(sorted), i, rules)

\* [...rules].sort((a, b) => (a.priority || 999) - (b.priority || 999)),
\* as the list of positions in rules
RECURSIVE SortFrom(_, _, _)
SortFrom(sorted, i, rules) ==
    IF i > Len(rules) THEN sorted ELSE SortFrom(InsertSorted(sorted, i, rules), i + 1, rules)
SortRules(rules) == SortFrom(<<>>, 1, rules)

\* sortedRules.map(r => `${r.name}(${r.priority || 'default'})`).join(' -> ')
RECURSIVE ExecutionOrder(_, _)
ExecutionOrder(sorted, rules) ==
    IF sorted = <<>> THEN <<>>
    ELSE LET r == rules[Head(sorted)]
             one == JSToString(r.name) \o <<"(">>
                    \o (IF Truthy(r.priority) THEN JSToString(r.priority) ELSE <<"default">>)
                    \o <<")">>
         IN IF Len(sorted) = 1 THEN one
            ELSE one \o <<" -> ">> \o ExecutionOrder(Tail(sorted), rules)


\* ------------------------------------------------------------------------
\* validate(rulesConfig)
\* ------------------------------------------------------------------------
\* a token that can stand as an operand; the text of an object,
\* [object Object], cannot
IsOperandToken(tok) == tok \notin Operators /\ tok # "[object Object]"

\* new Function('return ' + text) compiles: the text is empty or one of
\* the expression forms of the evaluator
Compiles(text) ==
    LET toks == Lex(text)
    IN CASE toks = <<>> -> TRUE
         [] Len(toks) = 1 -> IsOperandToken(toks[1])
         [] Len(toks) = 2 -> toks[1] = "!" /\ IsOperandToken(toks[2])
         [] Len(toks) = 3 -> /\ toks[2] \in {"+", "*", "<"}
                             /\ IsOperandToken(toks[1])
                             /\ IsOperandToken(toks[3])
         [] OTHER -> FALSE

\* typeof v === 'number'
IsNumber(v) == v.t \in {"number", "nan"}

\* the prefix of the messages about rule index, which is counted from 0
RuleLabel(rule, index) ==
    <<"Rule", " ", NatStr(index), " ", "(">> \o JSToString(rule.name) \o <<")", ":", " ">>

\* the check of the name: [names, errors] after it
CheckName(rule, index, names, errors) ==
    IF ~Truthy(rule.name)
    THEN [names |-> names,
          errors |-> Append(errors, <<"Rule", " ", NatStr(index), ":", " ", "Missing name">>)]
    ELSE IF rule.name \in names
    THEN [names |-> names,
          errors |-> Append(errors, <<"Rule", " ", NatStr(index), ":", " ",
                                      "Duplicate rule name", " ", "\"">>
                                    \o JSToString(rule.name) \o <<"\"">>)]
    ELSE [names |-> names \cup {rule.name}, errors |-> errors]

\* a check of the condition that compiles strings only
CompilesTruthyString(rule) ==
    ~(Truthy(rule.if) /\ rule.if.t = "string") \/ Compiles(JSToString(rule.if))

\* if (rule.if) new Function('return ' + rule.if): a condition is compiled
\* whenever it is truthy, as the text it converts to
CompilesTruthy(rule) == ~Truthy(rule.if) \/ Compiles(JSToString(rule.if))

CheckPriority(rule, index, errors) ==
    IF rule.priority # Undefined /\ (~IsNumber(rule.priority) \/ rule.priority.n < 0)
    THEN Append(errors, RuleLabel(rule, index) \o <<"Priority must be a non-negative number">>)
    ELSE errors

CheckCondition(rule, index, errors) ==
    IF CompilesTruthy(rule) THEN errors
    ELSE Append(errors, RuleLabel(rule, index) \o <<"Invalid condition syntax", " ", "-", " ">>
                          \o JSToString(Get(ErrorValue, "message")))

CheckClauses(rule, index, errors) ==
    IF ~Truthy(rule.then) /\ ~Truthy(rule.else)
    THEN Append(errors, RuleLabel(rule, index) \o <<"Must have 'then' or 'else' clause">>)
    ELSE errors

\* the body of the forEach callback for the rule at index
ValidateRule(rule, index, checked) ==
    [names |-> checked.names,
     errors |-> CheckClauses(rule, index,
                  CheckCondition(rule, index,
                    CheckPriority(rule, index, checked.errors)))]

RECURSIVE ValidateFrom(_, _, _)
ValidateFrom(rules, i, acc) ==
    IF i > Len(rules) THEN acc.errors
    ELSE ValidateFrom(rules, i + 1,
           ValidateRule(rules[i], i - 1,
                        CheckName(rules[i], i - 1, acc.names, acc.errors)))

\* rulesConfig.rules is falsy or no array
RulesMissing(config) == config.rulesType # "array"

validate(config) ==
    IF RulesMissing(config) THEN <<<<"Rules configuration must have a \"rules\" array">>>>
    ELSE ValidateFrom(config.rules, 1, [names |-> {}, errors |-> <<>>])

\* a rule as a rule set may spell it, well formed or not
RuleOf(name, priority, cond, then, else) ==
    [name |-> name, priority |-> priority, if |-> cond, then |-> then, else |-> else]

SomeClause == Obj(<<Entry(<<"x">>, Num(1))>>)

\* the well-formed rule a, and the values a rule set may hold in its place
\* in one field: no name, the empty name, another name; no priority,
\* priority 0, a negative priority, null, a string; no condition, a
\* boolean, a condition that does not parse, an object; else alone, no
\* clause at all
GoodRule == RuleOf(Str(<<"a">>), Num(1), Str(<<"x", " ", "<", " ", "1">>), SomeClause, Undefined)
NameValues == {Undefined, Str(<<>>), Str(<<"b">>)}
PriorityValues == {Undefined, Num(0), Num(0 - 1), Null, Str(<<"1">>)}
ConditionValues == {Undefined, Bool(TRUE), Bool(FALSE), Str(<<"x", " ", "<">>),
                    Str(<<"missing">>), Obj(<<>>)}

ValidatedRules ==
    {GoodRule}
    \cup {[GoodRule EXCEPT !.name = name] : name \in NameValues}
    \cup {[GoodRule EXCEPT !.priority = priority] : priority \in PriorityValues}
    \cup {[GoodRule EXCEPT !.if = cond] : cond \in ConditionValues}
    \cup {[GoodRule EXCEPT !.then = Undefined, !.else = SomeClause],
          [GoodRule EXCEPT !.then = Undefined],
          RuleOf(Undefined, Num(0 - 1), Str(<<"x", " ", "<">>), Undefined, Undefined),
          RuleOf(Str(<<"b">>), Str(<<"1">>), Obj(<<>>), Undefined, Undefined)}

\* what validate is handed: rule lists of at most MaxRules rules, and
\* configurations without a rules array
ValidatedConfigs ==
    {Config(Undefined, rules) :
       rules \in UNION {[1..len -> ValidatedRules] : len \in 0..MaxRules}}
    \cup {NoRuleList(Undefined, type) : type \in {"undefined", "null", "number"}}

\* ------------------------------------------------------------------------
\* KERN: the services of an SPC, Compiler.validate and the Optimizer
\* ------------------------------------------------------------------------
MaxServices == 3

\* a service; a missing spec reads like a spec without keys
Service(type, inputKey, outputKey) ==
    [type |-> type, inputKey |-> inputKey, outputKey |-> outputKey]

ServiceTypes == {"processor", "connector"}
Keys == {Undefined, Str(<<"k1">>), Str(<<"k2">>)}
Services == {Service(type, inputKey, outputKey) :
               type \in ServiceTypes, inputKey \in Keys, outputKey \in Keys}

\* the services objects of at most MaxServices services; the service at
\* position i has the id i
SPCs == UNION {[1..n -> Services] : n \in 0..MaxServices}

\* the ids k of the services from position k on whose outputKey is the
\* inputKey of service id, in the order of Object.entries
RECURSIVE Producers(_, _, _)
Producers(services, id, k) ==
    IF k > Len(services) THEN <<>>
    ELSE IF services[k].outputKey = services[id].inputKey
         THEN <<k>> \o Producers(services, id, k + 1)
         ELSE Producers(services, id, k + 1)

\* a graph whose edges leave every service that has an inputKey
buildDependencyGraphAnyType(services) ==
    [id \in 1..Len(services) |->
       IF Truthy(services[id].inputKey) THEN Producers(services, id, 1) ELSE <<>>]

\* Compiler.buildDependencyGraph: graph[id] lists the producers of the
\* input of a processor
buildDependencyGraph(services) ==
    [id \in 1..Len(services) |->
       IF services[id].type = "processor" /\ Truthy(services[id].inputKey)
       THEN Producers(services, id, 1) ELSE <<>>]

\* hasCycleDFS(node): the for loop over the neighbors from the k-th on, and
\* what follows it; seen holds visited, recursionStack and the result
RECURSIVE hasCycleDFS(_, _, _)
RECURSIVE ScanNeighbors(_, _, _, _)
AfterNeighbor(graph, node, k, seen) ==
    IF seen.result THEN seen ELSE ScanNeighbors(graph, node, k + 1, seen)

ScanNeighbors(graph, node, k, seen) ==
    IF k > Len(graph[node])
    THEN [seen EXCEPT !.recursionStack = seen.recursionStack \ {node}]
    ELSE IF graph[node][k] \notin seen.visited
         THEN AfterNeighbor(graph, node, k, hasCycleDFS(graph, graph[node][k], seen))
         ELSE IF graph[node][k] \in seen.recursionStack
              THEN [seen EXCEPT !.result = TRUE]
              ELSE ScanNeighbors(graph, node, k + 1, seen)

hasCycleDFS(graph, node, seen) ==
    ScanNeighbors(graph, node, 1,
                  [seen EXCEPT !.visited = seen.visited \cup {node},
                               !.recursionStack = seen.recursionStack \cup {node}])

\* the loop of hasCycles over the nodes of the graph, from node on
RECURSIVE ScanNodes(_, _, _)
AfterNode(graph, node, seen) ==
    IF seen.result THEN TRUE ELSE ScanNodes(graph, node + 1, seen)

ScanNodes(graph, node, seen) ==
    IF node > Len(graph) THEN FALSE
    ELSE IF node \notin seen.visited
         THEN AfterNode(graph, node, hasCycleDFS(graph, node, seen))
         ELSE ScanNodes(graph, node + 1, seen)

hasCycles(graph) ==
    ScanNodes(graph, 1, [visited |-> {}, recursionStack |-> {}, result |-> FALSE])

\* Compiler.validate on an SPC that has services: passed, or the message
\* of the error thrown
CompilerValidate(services) ==
    IF hasCycles(buildDependencyGraph(services))
    THEN "Circular dependencies detected" ELSE "passed"

\* a visit that pushes the id before it visits the dependencies
RECURSIVE visitPushFirst(_, _, _)
RECURSIVE VisitProducersPushFirst(_, _, _, _)
VisitProducersPushFirst(services, id, k, done) ==
    IF k > Len(services) THEN done
    ELSE IF services[k].outputKey = services[id].inputKey
         THEN VisitProducersPushFirst(services, id, k + 1, visitPushFirst(services, k, done))
         ELSE VisitProducersPushFirst(services, id, k + 1, done)

visitPushFirst(services, id, done) ==
    IF id \in done.visited THEN done
    ELSE IF Truthy(services[id].inputKey)
         THEN VisitProducersPushFirst(services, id, 1,
                  [visited |-> done.visited \cup {id}, order |-> Append(done.order, id)])
         ELSE [visited |-> done.visited \cup {id}, order |-> Append(done.order, id)]

\* visit(id) of calculateExecutionOrder; done holds visited and order
RECURSIVE visit(_, _, _)
RECURSIVE VisitProducers(_, _, _, _)
Push(done, id) == [done EXCEPT !.order = Append(done.order, id)]

VisitProducers(services, id, k, done) ==
    IF k > Len(services) THEN done
    ELSE IF services[k].outputKey = services[id].inputKey
         THEN VisitProducers(services, id, k + 1, visit(services, k, done))
         ELSE VisitProducers(services, id, k + 1, done)

visit(services, id, done) ==
    IF id \in done.visited THEN done
    ELSE IF Truthy(services[id].inputKey)
         THEN Push(VisitProducers(services, id, 1,
                                  [done EXCEPT !.visited = done.visited \cup {id}]), id)
         ELSE Push([done EXCEPT !.visited = done.visited \cup {id}], id)

\* Object.keys(services).forEach(visit), from id on
RECURSIVE VisitFrom(_, _, _)
VisitFrom(services, id, done) ==
    IF id > Len(services) THEN done.order
    ELSE VisitFrom(services, id + 1, visit(services, id, done))

calculateExecutionOrder(services) ==
    VisitFrom(services, 1, [visited |-> {}, order |-> <<>>])

\* ------------------------------------------------------------------------
\* The engine instance, the running apply call and its caller
\* ------------------------------------------------------------------------
VARIABLES
    auditTrail,        \* this.auditTrail
    conflictLog,       \* this.conflictLog
    currentIteration,  \* this.currentIteration
    pc,                \* where the apply call stands: idle, while, for, done,
                       \* or raised when an error left the call
    inputData,         \* apply's first argument
    rulesConfig,       \* apply's second argument
    currentState,
    iteration,
    changed,
    maxIterations,
    sortedRules,       \* positions in rulesConfig.rules, in sorted order
    ruleIndex,         \* position of the for loop in sortedRules
    iterationChanges,  \* the sweep's Map: path -> name of its last writer
    written,           \* the sweep's writes: path -> value last set there
    clock,             \* last reading taken of the wall clock
    uuids,             \* uuids drawn so far
    results,           \* what the caller holds: per call, its config and Result
    calls,             \* apply calls made so far
    allocated,         \* objects and arrays built so far, numbered from 1
    inputRef,          \* the object inputData refers to
    stateRef,          \* the object currentState refers to
    auditRef,          \* the array this.auditTrail refers to
    conflictRef,       \* the array this.conflictLog refers to
    callerInput,       \* what the object inputRef holds now
    validateConfig,    \* the object handed to validate, as its caller holds it
    validateErrors,    \* the list validate returned
    validateCalls,     \* validate calls made so far
    spc,               \* the services of the SPC handed to KERN, in the order
                       \* of Object.entries
    validation,        \* how Compiler.validate ended: unchecked, passed, or
                       \* the message of the error it threw
    executionOrder,    \* what calculateExecutionOrder returned
    ordered,           \* calculateExecutionOrder has returned
    contextState,      \* the state a context is built from, as its owner holds it
    safeContext,       \* what createSafeContext returned
    conditionOut,      \* the last condition evaluated on the state, with its result
    templateOut,       \* the last template resolved on the state, with its value
    pathObject,        \* the object handed to setNestedPath, as it is now
    pathCalls,         \* the setNestedPath calls made: path, value, object before
    thresholdIn,       \* the threshold configuration handed to evaluateThreshold
    valueIn,           \* the value handed to it
    severity,          \* what evaluateThreshold returned
    spcFile,           \* the SPC document of the file: services and state
    engineServices,    \* this.services of the AXIS CLI engine
    engineState,       \* which state object this.state holds, 0 the one of the constructor
    stateObjects,      \* the state objects, one for each load
    connectorTasks,    \* for each execute call, the connector tasks it started
    callPhase,         \* for each execute call, how far it has come
    serviceRuns,    \* for each execute call, the processors and monitors run, with what they read
    resolvedStates,    \* for each execute call, the state it resolved with
    osServices,        \* this.services of the MicroService OS engine, by id
    runningServices,   \* this.runningServices
    globalState,       \* this.globalState
    osRuns,            \* the runService calls that went past their guard, with where they stand
    stateWrites,       \* the updates of the global state, with the service as it was then
    registrations      \* how many registerService calls were made

vars == <<auditTrail, conflictLog, currentIteration, pc, inputData, rulesConfig,
          currentState, iteration, changed, maxIterations, sortedRules, ruleIndex,
          iterationChanges, written, clock, uuids, results, calls,
          allocated, inputRef, stateRef, auditRef, conflictRef, callerInput,
          validateConfig, validateErrors, validateCalls,
          spc, validation, executionOrder, ordered,
          contextState, safeContext, conditionOut, templateOut,
          pathObject, pathCalls,
          thresholdIn, valueIn, severity,
          spcFile, engineServices, engineState, stateObjects, connectorTasks, callPhase, serviceRuns, resolvedStates,
          osServices, runningServices, globalState, osRuns, stateWrites, registrations>>

contextVars == <<contextState, safeContext, conditionOut, templateOut>>
pathVars == <<pathObject, pathCalls>>
thresholdVars == <<thresholdIn, valueIn, severity>>
cliVars == <<spcFile, engineServices, engineState, stateObjects, connectorTasks, callPhase, serviceRuns, resolvedStates>>
osVars == <<osServices, runningServices, globalState, osRuns, stateWrites, registrations>>
validateVars == <<validateConfig, validateErrors, validateCalls>>
kernVars == <<spc, validation, executionOrder, ordered>>
engineVars == <<auditTrail, conflictLog, currentIteration, pc, inputData, rulesConfig,
                currentState, iteration, changed, maxIterations, sortedRules, ruleIndex,
                iterationChanges, written, clock, uuids, results, calls,
                allocated, inputRef, stateRef, auditRef, conflictRef, callerInput>>

\* what the operations of one component leave alone: the variables of the others
besideEngine == <<validateVars, kernVars, contextVars, pathVars, thresholdVars, cliVars, osVars>>
besideValidate == <<engineVars, kernVars, contextVars, pathVars, thresholdVars, cliVars, osVars>>
besideKern == <<engineVars, validateVars, contextVars, pathVars, thresholdVars, cliVars, osVars>>
besideContext == <<engineVars, validateVars, kernVars, pathVars, thresholdVars, cliVars, osVars>>
besidePath == <<engineVars, validateVars, kernVars, contextVars, thresholdVars, cliVars, osVars>>
besideThreshold == <<engineVars, validateVars, kernVars, contextVars, pathVars, cliVars, osVars>>
besideCli == <<engineVars, validateVars, kernVars, contextVars, pathVars, thresholdVars, osVars>>
besideOs == <<engineVars, validateVars, kernVars, contextVars, pathVars, thresholdVars, cliVars>>

DefaultMaxIterations == 10

\* the engine after construction, before any call
Constructed ==
    /\ auditTrail = <<>>
    /\ conflictLog = <<>>
    /\ currentIteration = 0
    /\ pc = "idle"
    /\ inputData = Obj(<<>>)
    /\ rulesConfig = Config(Undefined, <<>>)
    /\ currentState = Obj(<<>>)
    /\ iteration = 0
    /\ changed = TRUE
    /\ maxIterations = DefaultMaxIterations
    /\ sortedRules = <<>>
    /\ ruleIndex = 1
    /\ iterationChanges = Obj(<<>>)
    /\ written = Obj(<<>>)
    /\ clock = 0
    /\ uuids = 0
    /\ results = <<>>
    /\ calls = 0
    /\ allocated = 2
    /\ inputRef = 0
    /\ stateRef = 0
    /\ auditRef = 1
    /\ conflictRef = 2
    /\ callerInput = Obj(<<>>)

\* KERN before it is handed an SPC
NoSPC ==
    /\ spc = <<>>
    /\ validation = "unchecked"
    /\ executionOrder = <<>>
    /\ ordered = FALSE

\* validate before it is handed a configuration
NotValidated ==
    /\ validateConfig = Config(Undefined, <<>>)
    /\ validateErrors = <<>>
    /\ validateCalls = 0

\* no context has been asked for
NoContext ==
    /\ contextState = Obj(<<>>)
    /\ safeContext = Obj(<<>>)
    /\ conditionOut = <<>>
    /\ templateOut = <<>>

\* setNestedPath has not been called
NoPath ==
    /\ pathObject = Obj(<<>>)
    /\ pathCalls = <<>>

\* evaluateThreshold has not been called
NoThreshold ==
    /\ thresholdIn = [above |-> Undefined, below |-> Undefined, warnAbove |-> Undefined, warnBelow |-> Undefined, critical |-> Undefined, warning |-> Undefined]
    /\ valueIn = 0
    /\ severity = "none"

\* the AXIS CLI engine has loaded nothing
NoCli ==
    /\ spcFile = [services |-> <<>>, state |-> Obj(<<>>)]
    /\ engineServices = <<>>
    /\ engineState = 0
    /\ stateObjects = <<>>
    /\ connectorTasks = <<>>
    /\ callPhase = <<>>
    /\ serviceRuns = <<>>
    /\ resolvedStates = <<>>

\* the MicroService OS engine as its constructor leaves it
NoOs ==
    /\ osServices = [id \in {"c1", "p1"} |-> [registered |-> FALSE, object |-> 0, named |-> FALSE, status |-> "none", after |-> "none"]]
    /\ runningServices = {}
    /\ globalState = Obj(<<>>)
    /\ osRuns = <<>>
    /\ stateWrites = <<>>
    /\ registrations = 0

Init ==
    /\ Constructed
    /\ NotValidated
    /\ NoSPC
    /\ NoContext
    /\ NoPath
    /\ NoThreshold
    /\ NoCli
    /\ NoOs

\* a copy that hands back the object it was given
SameObject(ref, fresh) == ref

\* JSON.parse(JSON.stringify(x)) builds a new object: fresh, not the
\* object ref that was serialized
ParsedCopy(ref, fresh) == fresh

\* an apply call that keeps the audit trail of the call before it
keepAuditTrail == auditTrail

\* this.auditTrail = [] at the head of apply
resetAuditTrail == <<>>

\* a loop test that forgets the cap
LoopTestChangedOnly == changed

\* a loop test that lets one more sweep through at the cap
LoopTestInclusive == changed /\ iteration <= maxIterations

\* a loop test that ignores the changed flag
LoopTestCapOnly == iteration < maxIterations

\* while (changed && iteration < maxIterations)
LoopTest == changed /\ iteration < maxIterations

\* a write log that lives on from sweep to sweep
KeepIterationChanges == iterationChanges

\* const iterationChanges = new Map() at the head of a sweep
NewIterationChanges == Obj(<<>>)

\* a changed flag that no application of a then clause sets
MarkChangedNever(flag, previousState, state) == flag

\* a changed flag that every application of a then clause sets
MarkChangedOnWrite(flag, previousState, state) == TRUE

\* a changed flag that only remembers the rule applied last
MarkChangedLastOnly(flag, previousState, state) == previousState # JSONStringify(state)

\* if (previousState !== JSON.stringify(currentState)) changed = true
MarkChanged(flag, previousState, state) == flag \/ previousState # JSONStringify(state)

\* what a caller passes: anything on the first call; afterwards it runs
\* the rule set of its last Result again, on the input of that Result or on
\* its output (the re-feed of a polling loop)
\* Each argument list is <<input, config, object>>: the object is a new
\* one on the first call and afterwards the input or output object of the
\* last Result.
HeldObjects ==
    {<<results[Len(results)].result.input, results[Len(results)].refs.input>>,
     <<results[Len(results)].result.output, results[Len(results)].refs.output>>}

CallArguments ==
    IF results = <<>> THEN {<<c[1], c[2], allocated + 1>> : c \in FirstCalls}
    ELSE {<<held[1], results[Len(results)].config, held[2]>> : held \in HeldObjects}

\* a spread that only takes an array
SpreadsArrayOnly(config) == config.rulesType = "array"

\* (rulesConfig.rules || []) can be spread: an array, or the [] taken for a
\* missing or null rules; a number is not iterable and the spread throws
Spreads(config) == config.rulesType \in {"array", "undefined", "null"}

\* an apply call that keeps the conflict log of the call before it
keepConflictLog == conflictLog

\* this.conflictLog = [] at the head of apply
resetConflictLog == <<>>

\* the three entries apply logs before the loop; the third is not reached
\* when the spread throws
OpeningLog(config) ==
    IF Spreads(config)
    THEN log(log(log(resetAuditTrail, <<"Starting rule application">>, "info"),
                 <<"Rules:", " ", NatStr(Len(config.rules))>>, "info"),
             <<"Execution order:", " ">>
               \o ExecutionOrder(SortRules(config.rules), config.rules), "info")
    ELSE log(log(resetAuditTrail, <<"Starting rule application">>, "info"),
             <<"Rules:", " ", NatStr(Len(config.rules))>>, "info")

\* a loop that is entered with nothing marked as changed
InitialChangedFalse == FALSE

\* let changed = true
InitialChanged == TRUE

\* apply(inputData, rulesConfig), up to the fixpoint loop; inputData is the
\* object ref, and base objects have been built before the call
Apply(input, config, ref, base) ==
    /\ inputData' = input
    /\ inputRef' = ref
    /\ callerInput' = input
    /\ rulesConfig' = config
    /\ auditRef' = base + 1
    /\ conflictLog' = resetConflictLog
    /\ conflictRef' = base + 2
    /\ currentIteration' = 0
    /\ currentState' = JSONParse(JSONStringify(input))
    /\ stateRef' = ParsedCopy(ref, base + 3)
    /\ allocated' = base + 3
    /\ iteration' = 0
    /\ changed' = InitialChanged
    /\ maxIterations' = IF Truthy(config.max_iterations)
                        THEN config.max_iterations.n ELSE DefaultMaxIterations
    /\ sortedRules' = SortRules(config.rules)
    /\ auditTrail' = OpeningLog(config)
    /\ pc' = IF Spreads(config) THEN "while" ELSE "raised"
    /\ calls' = calls + 1
    /\ written' = Obj(<<>>)
    /\ UNCHANGED <<ruleIndex, iterationChanges, clock, uuids, results,
                   besideEngine>>

\* the loop test holds: the head of the sweep
SweepBegin ==
    /\ pc = "while"
    /\ LoopTest
    /\ changed' = FALSE
    /\ iteration' = iteration + 1
    /\ currentIteration' = iteration + 1
    /\ auditTrail' = log(auditTrail, <<"--- Iteration ", NatStr(iteration + 1), " ---">>, "info")
    /\ iterationChanges' = NewIterationChanges
    /\ written' = Obj(<<>>)
    /\ ruleIndex' = 1
    /\ pc' = "for"
    /\ UNCHANGED <<conflictLog, inputData, rulesConfig, currentState, maxIterations,
                   sortedRules, clock, uuids, results, calls,
                   allocated, inputRef, stateRef, auditRef, conflictRef, callerInput,
                   besideEngine>>

\* the rule the for loop stands at
CurrentRule == rulesConfig.rules[sortedRules[ruleIndex]]

\* the value of the entry reads the wall clock when it is resolved: new
\* Date() for now(), Date.now() for timestamp()
EntryReadsClock(e) == Includes(e.v.s, "now()") \/ Includes(e.v.s, "timestamp()")

\* the reading before the one of entry i
ReadingBefore(readings, i, from) == IF i = 1 THEN from ELSE readings[i - 1]

\* the readings the entries of a then clause can meet, the last reading
\* taken being from: the clock never goes back, and between two readings
\* it may have advanced
ClockReadings(then, from) ==
    {readings \in [1..Len(then.o) -> from..MaxClock] :
        \A i \in 1..Len(then.o) :
            /\ ReadingBefore(readings, i, from) <= readings[i]
            /\ EntryReadsClock(then.o[i]) \/ readings[i] = ReadingBefore(readings, i, from)}

\* the last reading taken
LastReading(readings, from) == IF Len(readings) = 0 THEN from ELSE readings[Len(readings)]

\* a clock that stands at now for every entry
Steady(then, now) == [i \in 1..Len(then.o) |-> now]

\* the value read at a path of a state
RECURSIVE ReadKeys(_, _)
ReadKeys(obj, keys) ==
    IF keys = <<>> THEN obj ELSE ReadKeys(Get(obj, Head(keys)), Tail(keys))
ReadPath(obj, path) == ReadKeys(obj, Split(path))

\* what one turn of the for loop leaves behind: the state and the object
\* that holds it, the object the turn wrote into and what that object now
\* holds, the logs, and whether an error left the turn
Unchanged(audit, raised) ==
    [state |-> currentState, stateRef |-> stateRef,
     touched |-> currentState, touchedRef |-> stateRef, allocated |-> allocated,
     changed |-> changed, changes |-> iterationChanges,
     conflicts |-> conflictLog, audit |-> audit, uuids |-> uuids, written |-> written,
     raised |-> raised]

\* currentState = stateChanges.newState and the change check, newState
\* being the object newRef; neither is reached when an error left the call
Transformed(stateChanges, previousState, newRef) ==
    [state |-> IF stateChanges.raised THEN currentState ELSE stateChanges.newState,
     stateRef |-> IF stateChanges.raised THEN stateRef ELSE newRef,
     touched |-> stateChanges.newState, touchedRef |-> newRef,
     allocated |-> allocated + 1,
     changed |-> IF stateChanges.raised THEN changed
                 ELSE MarkChanged(changed, previousState, stateChanges.newState),
     changes |-> stateChanges.changes,
     conflicts |-> stateChanges.conflicts,
     audit |-> stateChanges.audit,
     uuids |-> stateChanges.uuids,
     written |-> stateChanges.written,
     raised |-> stateChanges.raised]

\* an applied rule without a then clause that counts as a change
NoThenMarksChanged(applied) == [Unchanged(applied, FALSE) EXCEPT !.changed = TRUE]

\* if (rule.then) not taken: nothing but the Applied entry comes of the rule
NoThen(applied) == Unchanged(applied, FALSE)

\* the rule's condition held: it is logged as applied, and its then clause,
\* when it has one, is carried out
Fire(rule, applied, readings) ==
    IF Truthy(rule.then)
    THEN Transformed(
           applyTransformationsWithTracking(currentState, rule.then, rule.name,
               [newState |-> currentState, changes |-> iterationChanges,
                conflicts |-> conflictLog, audit |-> applied,
                uuids |-> uuids, written |-> written, raised |-> FALSE],
               iteration, readings),
           JSONStringify(currentState),
           ParsedCopy(stateRef, allocated + 1))
    ELSE NoThen(applied)

\* an Applied entry that is only logged for a rule with a then clause
AppliedEntryWithThen(rule, audit) ==
    IF Truthy(rule.then)
    THEN log(audit, <<"Applied:", " ">> \o JSToString(rule.name), "info")
    ELSE audit

\* this.log(`Applied: ${rule.name}`)
AppliedEntry(rule, audit) ==
    log(audit, <<"Applied:", " ">> \o JSToString(rule.name), "info")

\* a rule passed over without a word, its condition not having held
SkippedEntrySilent(rule, audit) == audit

\* this.log(`Skipped: ${rule.name} (condition not met)`)
SkippedEntry(rule, audit) ==
    log(audit, <<"Skipped:", " ">> \o JSToString(rule.name)
                   \o <<" (condition not met)">>, "info")

Decide(rule, cond, readings) ==
    IF cond.raised THEN Unchanged(cond.audit, TRUE)
    ELSE IF cond.result
    THEN Fire(rule, AppliedEntry(rule, cond.audit), readings)
    ELSE Unchanged(SkippedEntry(rule, cond.audit), FALSE)

\* the body of the for loop for one rule, its entries resolved at the
\* clock readings given
ApplyRule(rule, readings) ==
    Decide(rule, evaluateCondition(rule.if, currentState, auditTrail), readings)

Commit(r) ==
    /\ currentState' = r.state
    /\ stateRef' = r.stateRef
    /\ callerInput' = IF r.touchedRef = inputRef THEN r.touched ELSE callerInput
    /\ allocated' = r.allocated
    /\ pc' = IF r.raised THEN "raised" ELSE "for"
    /\ changed' = r.changed
    /\ iterationChanges' = r.changes
    /\ conflictLog' = r.conflicts
    /\ auditTrail' = r.audit
    /\ uuids' = r.uuids
    /\ written' = r.written

\* one turn of the for loop
RuleStep ==
    /\ pc = "for"
    /\ ruleIndex <= Len(sortedRules)
    /\ \E readings \in ClockReadings(CurrentRule.then, clock) :
         /\ Commit(ApplyRule(CurrentRule, readings))
         /\ clock' = LastReading(readings, clock)
    /\ ruleIndex' = ruleIndex + 1
    /\ UNCHANGED <<currentIteration, inputData, rulesConfig, iteration,
                   maxIterations, sortedRules, results, calls,
                   inputRef, auditRef, conflictRef,
                   besideEngine>>

\* the for loop is through: the tail of the sweep
SweepEnd ==
    /\ pc = "for"
    /\ ruleIndex > Len(sortedRules)
    /\ auditTrail' = IF Len(conflictLog) > 0
                     THEN log(auditTrail, <<"Conflicts resolved:", " ",
                                            NatStr(Len(conflictLog))>>, "warning")
                     ELSE auditTrail
    /\ pc' = "while"
    /\ UNCHANGED <<conflictLog, currentIteration, inputData, rulesConfig, currentState,
                   iteration, changed, maxIterations, sortedRules, ruleIndex,
                   iterationChanges, written, clock, uuids, results, calls,
                   allocated, inputRef, stateRef, auditRef, conflictRef, callerInput,
                   besideEngine>>

EngineVersion == "1.0.0"

\* the Result handed to the caller, the audit trail being final
Finish(final) ==
    /\ auditTrail' = final
    /\ results' = Append(results,
          [config |-> rulesConfig,
           lastSweepChanged |-> changed,
           refs |-> [input |-> inputRef, output |-> stateRef,
                     audit |-> auditRef, conflicts |-> conflictRef],
           result |-> [input |-> inputData,
                       output |-> currentState,
                       iterations |-> iteration,
                       audit |-> final,
                       conflicts |-> conflictLog,
                       rulesApplied |-> getRulesApplied(final),
                       engine_version |-> EngineVersion]])

\* a cap test that only holds beyond the cap
HitCapStrict == iteration > maxIterations

\* if (iteration >= maxIterations)
HitCap == iteration >= maxIterations

\* the loop test fails: apply logs the end of the run and returns the Result
Return ==
    /\ pc = "while"
    /\ ~LoopTest
    /\ Finish(log(IF HitCap
                   THEN log(auditTrail, <<"Stopped at max iterations:", " ",
                                          IntStr(maxIterations)>>, "warning")
                   ELSE auditTrail,
                   <<"Completed in ", NatStr(iteration), " iterations">>, "info"))
    /\ pc' = "done"
    /\ UNCHANGED <<conflictLog, currentIteration, inputData, rulesConfig, currentState,
                   iteration, changed, maxIterations, sortedRules, ruleIndex,
                   iterationChanges, written, clock, uuids, calls,
                   allocated, inputRef, stateRef, auditRef, conflictRef, callerInput,
                   besideEngine>>

\* the caller calls apply when no call is running
Call ==
    /\ pc \in {"idle", "done", "raised"}
    /\ calls < MaxCalls
    /\ \E arguments \in CallArguments :
         Apply(arguments[1], arguments[2], arguments[3],
               IF arguments[3] > allocated THEN arguments[3] ELSE allocated)

Next ==
    \/ Call
    \/ SweepBegin
    \/ RuleStep
    \/ SweepEnd
    \/ Return

Spec == Init /\ [][Next]_vars

\* ------------------------------------------------------------------------
\* validate on its own: the caller holds a configuration and validates it
\* ------------------------------------------------------------------------

InitValidate ==
    /\ Constructed
    /\ NoSPC
    /\ NoContext
    /\ NoPath
    /\ NoThreshold
    /\ NoCli
    /\ NoOs
    /\ validateConfig \in ValidatedConfigs
    /\ validateErrors = <<>>
    /\ validateCalls = 0

\* validate(rulesConfig): it builds and returns the list of errors and
\* assigns to nothing else
Validate ==
    /\ validateCalls < MaxCalls
    /\ validateErrors' = validate(validateConfig)
    /\ validateCalls' = validateCalls + 1
    /\ UNCHANGED validateConfig
    /\ UNCHANGED besideValidate

NextValidate == Validate

SpecValidate == InitValidate /\ [][NextValidate]_vars


\* ------------------------------------------------------------------------
\* KERN on its own: an SPC is validated and its execution order calculated
\* ------------------------------------------------------------------------
InitKern ==
    /\ Constructed
    /\ NotValidated
    /\ NoContext
    /\ NoPath
    /\ NoThreshold
    /\ NoCli
    /\ NoOs
    /\ spc \in SPCs
    /\ validation = "unchecked"
    /\ executionOrder = <<>>
    /\ ordered = FALSE

\* new Compiler(spc).validate()
Validation ==
    /\ validation = "unchecked"
    /\ validation' = CompilerValidate(spc)
    /\ UNCHANGED <<spc, executionOrder, ordered, besideKern>>

\* new Optimizer(spc).calculateExecutionOrder()
Ordering ==
    /\ ~ordered
    /\ executionOrder' = calculateExecutionOrder(spc)
    /\ ordered' = TRUE
    /\ UNCHANGED <<spc, validation, besideKern>>

NextKern ==
    \/ Validation
    \/ Ordering

SpecKern == InitKern /\ [][NextKern]_vars


\* ------------------------------------------------------------------------
\* The evaluation context on its own: a context is built from a state, and
\* a condition and a template are evaluated on the state
\* ------------------------------------------------------------------------
MaxStateKeys == 2    \* the top-level keys of a state

\* the array [{k: 4}]
ArrayOfObject == Arr(<<Entry("0", Obj(<<Entry("k", Num(4))>>))>>)

\* what a state can hold at its top level: leaves, nested objects down to
\* a.b.c, null and arrays at the top and inside, keys whose flattened names
\* meet, and every name of a utility
NestedEntries ==
    <<Entry("a", Num(1)),
      Entry("a", Obj(<<Entry("b", Num(2))>>)),
      Entry("a", Obj(<<Entry("b", Obj(<<Entry("c", Num(3))>>))>>)),
      Entry("a", Obj(<<Entry("b", Null)>>)),
      Entry("a", Obj(<<Entry("b", ArrayOfObject)>>)),
      Entry("a", Obj(<<Entry("b_c", Num(8))>>)),
      Entry("a_b", Num(5)),
      Entry("a_b", Obj(<<Entry("c", Num(6))>>)),
      Entry("list", ArrayOfObject),
      Entry("nothing", Null),
      Entry("Math", Obj(<<Entry("x", Num(7))>>))>>
UtilityNamedEntries == [i \in 1..Len(Utilities) |-> Entry(Utilities[i], Num(0))]
StateEntries == NestedEntries \o UtilityNamedEntries

DistinctKeys(es) == \A i, j \in 1..Len(es) : i < j => es[i].k # es[j].k

ContextStates ==
    UNION {{Obj([i \in 1..n |-> StateEntries[f[i]]]) :
               f \in {g \in [1..n -> 1..Len(StateEntries)] :
                         DistinctKeys([i \in 1..n |-> StateEntries[g[i]]])}} :
           n \in 0..MaxStateKeys}

\* conditions and templates that name utilities
ContextConditions ==
    {Str(<<"Math", " ", "<", " ", "1">>),
     Str(<<"!", " ", "JSON">>),
     Str(<<"Date", " ", "<", " ", "1">>)}
ContextTemplates ==
    {Str(<<"{{", " ", "Math", " ", "}}">>),
     Str(<<"{{", " ", "JSON", " ", "+", " ", "1", " ", "}}">>),
     Str(<<"{{", " ", "parseInt", " ", "}}">>)}

InitContext ==
    /\ Constructed
    /\ NotValidated
    /\ NoSPC
    /\ NoPath
    /\ NoThreshold
    /\ NoCli
    /\ NoOs
    /\ contextState \in ContextStates
    /\ safeContext = Obj(<<>>)
    /\ conditionOut = <<>>
    /\ templateOut = <<>>

\* this.createSafeContext(context)
CreateSafeContext ==
    /\ safeContext = Obj(<<>>)
    /\ safeContext' = createSafeContext(contextState)
    /\ UNCHANGED <<contextState, conditionOut, templateOut>>
    /\ UNCHANGED besideContext

\* this.evaluateCondition(condition, context)
EvaluateCondition ==
    /\ conditionOut = <<>>
    /\ \E condition \in ContextConditions :
         conditionOut' = <<[condition |-> condition,
                            outcome |-> evaluateCondition(condition, contextState, <<>>)]>>
    /\ UNCHANGED <<contextState, safeContext, templateOut>>
    /\ UNCHANGED besideContext

\* this.resolveValue(template, context)
ResolveValue ==
    /\ templateOut = <<>>
    /\ \E template \in ContextTemplates :
         templateOut' = <<[template |-> template,
                           outcome |-> resolveValue(template, contextState, <<>>,
                                                    [now |-> 0, uuids |-> 0])]>>
    /\ UNCHANGED <<contextState, safeContext, conditionOut>>
    /\ UNCHANGED besideContext

NextContext ==
    \/ CreateSafeContext
    \/ EvaluateCondition
    \/ ResolveValue

SpecContext == InitContext /\ [][NextContext]_vars

\* ------------------------------------------------------------------------
\* The path writer on its own: setNestedPath is called on an object
\* ------------------------------------------------------------------------
\* the paths written: to the top level, below an object, a number, null,
\* an array and a missing key, and through an element of an array
WrittenPaths ==
    {<<"a">>, <<"a", ".", "b">>, <<"a", ".", "b", ".", "c">>, <<"a_b", ".", "c">>,
     <<"list", ".", "k">>, <<"list", ".", "0", ".", "k">>, <<"nothing", ".", "z">>,
     <<"m", ".", "n">>}
WrittenValues == {Num(9), Obj(<<Entry("c", Num(3))>>)}

InitPath ==
    /\ Constructed
    /\ NotValidated
    /\ NoSPC
    /\ NoContext
    /\ NoThreshold
    /\ NoCli
    /\ NoOs
    /\ pathObject \in ContextStates
    /\ pathCalls = <<>>

\* this.setNestedPath(obj, path, value), which writes into obj
SetNestedPath ==
    /\ pathCalls = <<>>
    /\ \E path \in WrittenPaths, value \in WrittenValues :
         /\ pathObject' = setNestedPath(pathObject, path, value)
         /\ pathCalls' = <<[path |-> path, value |-> value, before |-> pathObject]>>
    /\ UNCHANGED besidePath

NextPath == SetNestedPath

SpecPath == InitPath /\ [][NextPath]_vars

\* ------------------------------------------------------------------------
\* AXIS CLI: evaluateThreshold (src/axis-cli/src/engine.js)
\* ------------------------------------------------------------------------
\* the largest number a threshold key or a checked value takes
MaxBound == 2

\* typeof threshold.X === 'number' && value >= threshold.X
AtOrAbove(value, bound) == bound.t = "number" /\ value >= bound.n

\* typeof threshold.X === 'number' && value <= threshold.X
AtOrBelow(value, bound) == bound.t = "number" /\ value <= bound.n

\* evaluateThreshold(value, threshold): the first test that matches, in the
\* order of the code, gives the status
evaluateThreshold(value, threshold) ==
    IF AtOrAbove(value, threshold.above) THEN "critical"
    ELSE IF AtOrBelow(value, threshold.below) THEN "critical"
    ELSE IF AtOrAbove(value, threshold.warnAbove) THEN "warning"
    ELSE IF AtOrBelow(value, threshold.warnBelow) THEN "warning"
    ELSE IF AtOrAbove(value, threshold.critical) THEN "critical"
    ELSE IF AtOrAbove(value, threshold.warning) THEN "warning"
    ELSE "ok"

\* a threshold key is absent or a number
ThresholdBounds == {Undefined} \cup {Num(n) : n \in 1..MaxBound}
Thresholds ==
    [above : ThresholdBounds, below : ThresholdBounds,
     warnAbove : ThresholdBounds, warnBelow : ThresholdBounds,
     critical : ThresholdBounds, warning : ThresholdBounds]
CheckedValues == 0..(MaxBound + 1)

InitThreshold ==
    /\ Constructed
    /\ NotValidated
    /\ NoSPC
    /\ NoContext
    /\ NoPath
    /\ NoCli
    /\ NoOs
    /\ thresholdIn \in Thresholds
    /\ valueIn \in CheckedValues
    /\ severity = "none"

\* status: this.evaluateThreshold(value, threshold), in executeMonitors
EvaluateThreshold ==
    /\ severity = "none"
    /\ severity' = evaluateThreshold(valueIn, thresholdIn)
    /\ UNCHANGED <<thresholdIn, valueIn>>
    /\ UNCHANGED besideThreshold

NextThreshold == EvaluateThreshold

SpecThreshold == InitThreshold /\ [][NextThreshold]_vars

\* ------------------------------------------------------------------------
\* AXIS CLI: SPCEngine.load and execute, and the watch command
\* (src/axis-cli/src/engine.js, src/axis-cli/src/commands/export.js)
\* ------------------------------------------------------------------------
MaxTicks == 3    \* the ticks of a watch

\* a service of the document with the keys of its spec; "" stands for a
\* key the spec does not have
CliService(id, type, url, inputKey, outputKey, dataKey) ==
    [id |-> id, type |-> type, url |-> url, inputKey |-> inputKey,
     outputKey |-> outputKey, dataKey |-> dataKey]

\* the template literals `${id}_data`, `${id}_error`, `${id}_output` and
\* `${id}_monitoring`
Suffixed(id, suffix) ==
    CASE id = "c1" /\ suffix = "_data" -> "c1_data"
      [] id = "c1" /\ suffix = "_error" -> "c1_error"
      [] id = "c2" /\ suffix = "_data" -> "c2_data"
      [] id = "c2" /\ suffix = "_error" -> "c2_error"
      [] id = "p1" /\ suffix = "_output" -> "p1_output"
      [] id = "m1" /\ suffix = "_monitoring" -> "m1_monitoring"

\* key || `${id}<suffix>`
KeyOr(key, id, suffix) == IF key # "" THEN key ELSE Suffixed(id, suffix)

\* the task of a service: where its runConnector stands (at), how it
\* settled (how), the state object it wrote into and what it wrote
NoTask(service) ==
    [id |-> service.id, url |-> service.url,
     resultKey |-> "", at |-> "none", how |-> "", into |-> 0, data |-> Undefined]

\* runConnector(id, service) up to its first await: a spec without url
\* returns at once, the others wait for fetch
StartConnector(service) ==
    IF service.type # "connector" THEN NoTask(service)
    ELSE IF service.url = "" THEN [NoTask(service) EXCEPT !.at = "settled", !.how = "nourl"]
    ELSE [NoTask(service) EXCEPT !.at = "fetching",
                                 !.resultKey = KeyOr(service.outputKey, service.id, "_data")]

\* an execute that does not await its connectors
AllSettledAtOnce(tasks) == TRUE

\* await Promise.allSettled(tasks) has what it waits for
AllSettled(tasks) == \A i \in 1..Len(tasks) : tasks[i].at \in {"none", "settled"}

\* the handler of .catch drops the error
CaughtSilently(obj, id, message) == obj

\* .catch(err => { this.state[`${id}_error`] = err.message; })
Caught(obj, id, message) == Put(obj, Suffixed(id, "_error"), Str(<<message>>))

\* what the endpoint serves to the fetch of a call: its reading rises from
\* call to call
Served(url, call) == Obj(<<Entry("url", Str(<<url>>)), Entry("level", Num(call))>>)

\* the thresholds of the monitor: {level: {above: 2}}
MonitorThreshold ==
    [above |-> Num(2), below |-> Undefined, warnAbove |-> Undefined,
     warnBelow |-> Undefined, critical |-> Undefined, warning |-> Undefined]

\* evaluateThreshold on what evaluateExpression gave: a number, or
\* undefined, which meets no bound
StatusOf(value, threshold) ==
    IF value.t = "number" THEN evaluateThreshold(value.n, threshold) ELSE "ok"

\* executeProcessors: the forEach over this.services from service i on,
\* acc holding the state object and the services run so far
RECURSIVE RunProcessors(_, _, _)
RunProcessors(services, i, acc) ==
    IF i > Len(services) THEN acc
    ELSE IF services[i].type # "processor" THEN RunProcessors(services, i + 1, acc)
    ELSE IF Get(acc.state, services[i].inputKey) = Undefined
    THEN RunProcessors(services, i + 1,
            [acc EXCEPT !.runs = Append(@, [id |-> services[i].id, type |-> "processor",
                                            input |-> Undefined])])
    ELSE RunProcessors(services, i + 1,
            [state |-> Put(acc.state, KeyOr(services[i].outputKey, services[i].id, "_output"),
                           Get(acc.state, services[i].inputKey)),
             runs |-> Append(acc.runs, [id |-> services[i].id, type |-> "processor",
                                        input |-> Get(acc.state, services[i].inputKey)])])

\* the results of a monitor with the one check {name: 'level', dataKey,
\* expression: 'data.level'}
MonitorResults(data) ==
    IF data = Undefined THEN Obj(<<>>)
    ELSE Obj(<<Entry("level",
                     Obj(<<Entry("value", Get(data, "level")),
                           Entry("status",
                                 Str(<<StatusOf(Get(data, "level"), MonitorThreshold)>>))>>))>>)

\* executeMonitors: the forEach over this.services from service i on
RECURSIVE RunMonitors(_, _, _)
RunMonitors(services, i, acc) ==
    IF i > Len(services) THEN acc
    ELSE IF services[i].type # "monitor" THEN RunMonitors(services, i + 1, acc)
    ELSE RunMonitors(services, i + 1,
            [state |-> Put(acc.state, Suffixed(services[i].id, "_monitoring"),
                           MonitorResults(Get(acc.state, services[i].dataKey))),
             runs |-> Append(acc.runs, [id |-> services[i].id, type |-> "monitor",
                                        input |-> Get(acc.state, services[i].dataKey)])])

\* the documents of the model: a connector feeding a processor that feeds a
\* monitor; the processor listed before two connectors; a connector without
\* url
FeedServices ==
    <<CliService("c1", "connector", "u1", "", "feed", ""),
      CliService("p1", "processor", "", "feed", "", ""),
      CliService("m1", "monitor", "", "", "", "p1_output")>>
ProcessorFirstServices ==
    <<CliService("p1", "processor", "", "c1_data", "copy", ""),
      CliService("c1", "connector", "u1", "", "", ""),
      CliService("c2", "connector", "u2", "", "", ""),
      CliService("m1", "monitor", "", "", "", "c2_data")>>
NoUrlServices ==
    <<CliService("c1", "connector", "", "", "feed", ""),
      CliService("c2", "connector", "u2", "", "", ""),
      CliService("p1", "processor", "", "feed", "", ""),
      CliService("m1", "monitor", "", "", "", "c2_data")>>
FileStates == {Obj(<<>>), Obj(<<Entry("feed", Str(<<"old">>))>>)}
SpcFiles ==
    [services : {FeedServices, ProcessorFirstServices, NoUrlServices}, state : FileStates]

\* a call that has not resolved yet
NotResolved == [object |-> 0, shown |-> Obj(<<>>)]

InitCli ==
    /\ Constructed
    /\ NotValidated
    /\ NoSPC
    /\ NoContext
    /\ NoPath
    /\ NoThreshold
    /\ NoOs
    /\ spcFile \in SpcFiles
    /\ engineServices = <<>>
    /\ engineState = 0
    /\ stateObjects = <<>>
    /\ connectorTasks = <<>>
    /\ callPhase = <<>>
    /\ serviceRuns = <<>>
    /\ resolvedStates = <<>>

\* a call is in the synchronous part that follows its connectors: nothing
\* else runs until it has resolved
Busy ==
    \E t \in 1..Len(callPhase) :
        \/ callPhase[t] \in {"processed", "monitored"}
        \/ callPhase[t] = "connectors" /\ AllSettled(connectorTasks[t])

\* engine.load(spc) on the parsed file, and engine.execute() up to its
\* await: executeConnectors starts a task for every connector
LoadExecute ==
    /\ engineServices' = spcFile.services
    /\ stateObjects' = Append(stateObjects, spcFile.state)
    /\ engineState' = Len(callPhase) + 1
    /\ connectorTasks' = Append(connectorTasks,
            [i \in 1..Len(spcFile.services) |-> StartConnector(spcFile.services[i])])
    /\ callPhase' = Append(callPhase, "connectors")
    /\ serviceRuns' = Append(serviceRuns, <<>>)
    /\ resolvedStates' = Append(resolvedStates, NotResolved)
    /\ UNCHANGED spcFile
    /\ UNCHANGED besideCli

\* the first call: engine.load(spc); await engine.execute()
Run ==
    /\ callPhase = <<>>
    /\ LoadExecute

\* setInterval(tick, interval), set up when the first tick has ended: the
\* timer fires whether or not the tick before has ended
TimerTick ==
    /\ callPhase # <<>>
    /\ callPhase[1] = "resolved"
    /\ Len(callPhase) < MaxTicks
    /\ ~Busy
    /\ LoadExecute

\* the fetch of a connector settles: a response that is ok, a response with
\* another status (throw new Error(`HTTP ${response.status}`)), or a
\* rejection; the error lands in the catch of executeConnectors
FetchSettles ==
    /\ ~Busy
    /\ \E t \in 1..Len(callPhase) : \E i \in 1..Len(connectorTasks[t]) :
       \E outcome \in {"ok", "HTTP 500", "request failed"} :
         /\ connectorTasks[t][i].at = "fetching"
         /\ IF outcome = "ok"
            THEN /\ connectorTasks' = [connectorTasks EXCEPT ![t][i].at = "reading"]
                 /\ UNCHANGED stateObjects
            ELSE /\ connectorTasks' = [connectorTasks EXCEPT ![t][i] =
                        [@ EXCEPT !.at = "settled", !.how = "error",
                                  !.into = engineState, !.data = Str(<<outcome>>)]]
                 /\ stateObjects' = [stateObjects EXCEPT ![engineState] =
                        Caught(@, connectorTasks[t][i].id, outcome)]
    /\ UNCHANGED <<spcFile, engineServices, engineState, callPhase, serviceRuns,
                   resolvedStates>>
    /\ UNCHANGED besideCli

\* response.json() settles: the data is written under the key of the
\* connector in what this.state holds now, or the body does not parse and
\* the error lands in the catch
JsonSettles ==
    /\ ~Busy
    /\ \E t \in 1..Len(callPhase) : \E i \in 1..Len(connectorTasks[t]) :
       \E outcome \in {"parsed", "invalid json"} :
         /\ connectorTasks[t][i].at = "reading"
         /\ IF outcome = "parsed"
            THEN /\ connectorTasks' = [connectorTasks EXCEPT ![t][i] =
                        [@ EXCEPT !.at = "settled", !.how = "written",
                                  !.into = engineState,
                                  !.data = Served(connectorTasks[t][i].url, t)]]
                 /\ stateObjects' = [stateObjects EXCEPT ![engineState] =
                        Put(@, connectorTasks[t][i].resultKey,
                            Served(connectorTasks[t][i].url, t))]
            ELSE /\ connectorTasks' = [connectorTasks EXCEPT ![t][i] =
                        [@ EXCEPT !.at = "settled", !.how = "error",
                                  !.into = engineState, !.data = Str(<<outcome>>)]]
                 /\ stateObjects' = [stateObjects EXCEPT ![engineState] =
                        Caught(@, connectorTasks[t][i].id, outcome)]
    /\ UNCHANGED <<spcFile, engineServices, engineState, callPhase, serviceRuns,
                   resolvedStates>>
    /\ UNCHANGED besideCli

\* the await of execute returns: this.executeProcessors()
ExecuteProcessors ==
    \E t \in 1..Len(callPhase) :
        /\ callPhase[t] = "connectors"
        /\ AllSettled(connectorTasks[t])
        /\ callPhase' = [callPhase EXCEPT ![t] = "processed"]
        /\ stateObjects' = [stateObjects EXCEPT ![engineState] =
                RunProcessors(engineServices, 1, [state |-> @, runs |-> <<>>]).state]
        /\ serviceRuns' = [serviceRuns EXCEPT ![t] =
                RunProcessors(engineServices, 1,
                              [state |-> stateObjects[engineState], runs |-> @]).runs]
        /\ UNCHANGED <<spcFile, engineServices, engineState, connectorTasks, resolvedStates>>
        /\ UNCHANGED besideCli

\* this.executeMonitors()
ExecuteMonitors ==
    \E t \in 1..Len(callPhase) :
        /\ callPhase[t] = "processed"
        /\ callPhase' = [callPhase EXCEPT ![t] = "monitored"]
        /\ stateObjects' = [stateObjects EXCEPT ![engineState] =
                RunMonitors(engineServices, 1, [state |-> @, runs |-> <<>>]).state]
        /\ serviceRuns' = [serviceRuns EXCEPT ![t] =
                RunMonitors(engineServices, 1,
                            [state |-> stateObjects[engineState], runs |-> @]).runs]
        /\ UNCHANGED <<spcFile, engineServices, engineState, connectorTasks, resolvedStates>>
        /\ UNCHANGED besideCli

\* return this.state: the call resolves with the object this.state holds
\* now, and the tick of a watch prints it
Resolve ==
    \E t \in 1..Len(callPhase) :
        /\ callPhase[t] = "monitored"
        /\ callPhase' = [callPhase EXCEPT ![t] = "resolved"]
        /\ resolvedStates' = [resolvedStates EXCEPT ![t] =
                [object |-> engineState, shown |-> stateObjects[engineState]]]
        /\ UNCHANGED <<spcFile, engineServices, engineState, stateObjects, connectorTasks,
                       serviceRuns>>
        /\ UNCHANGED besideCli

NextExecute ==
    \/ Run
    \/ FetchSettles
    \/ JsonSettles
    \/ ExecuteProcessors
    \/ ExecuteMonitors
    \/ Resolve

SpecExecute == InitCli /\ [][NextExecute]_vars

NextWatch ==
    \/ NextExecute
    \/ TimerTick

\* the watched file is the document of the connector that feeds a processor
InitWatch ==
    /\ InitCli
    /\ spcFile.services = FeedServices

SpecWatch == InitWatch /\ [][NextWatch]_vars

\* ------------------------------------------------------------------------
\* MicroService OS: the service lifecycle of SPCEngine (src/unnamed/part_009)
\* ------------------------------------------------------------------------
MaxRegistrations == 3    \* registerService calls
MaxRuns == 2             \* runService calls that go past their guard

\* the services of the model: the connector c1 with a url and the processor
\* p1 that reads what c1 stores
OsIds == {"c1", "p1"}
OsConfig(id) ==
    IF id = "c1"
    THEN [type |-> "connector", url |-> "u1", inputKey |-> "", outputKey |-> ""]
    ELSE [type |-> "processor", url |-> "", inputKey |-> "c1_data", outputKey |-> "out"]

\* the configurations registerService is handed for an id: the one of the
\* connector carries its id as a property (createService sets template.id)
\* or does not (loadSampleServices)
OsNamed(id) == IF id = "c1" THEN BOOLEAN ELSE {TRUE}

\* service.id + '_data', service.id being the property id of the
\* configuration: undefined when the configuration has none
OsDataKey(id, named) == IF named THEN "c1_data" ELSE "undefined_data"

\* service.spec.outputKey || service.id + '_data'
OsOutputKey(id, named) ==
    IF OsConfig(id).outputKey # "" THEN OsConfig(id).outputKey ELSE OsDataKey(id, named)

\* what the endpoint serves to a run
Fetched(run) == Obj(<<Entry("run", Num(run))>>)

\* this.updateGlobalState(key, value), noted with the service as the map
\* holds it at this moment
Update(id, key, value) ==
    /\ globalState' = Put(globalState, key, value)
    /\ stateWrites' = Append(stateWrites,
            [id |-> id, status |-> osServices[id].status, after |-> osServices[id].after])

\* runService(id) past its guard, up to its first await: a connector waits
\* for fetch; a processor copies its input, if it is truthy, to its output
\* key
BeginRun(id, services) ==
    IF OsConfig(id).type = "connector"
    THEN /\ osRuns' = Append(osRuns, [id |-> id, object |-> services[id].object,
                                       named |-> services[id].named,
                                       at |-> "fetching"])
         /\ UNCHANGED <<globalState, stateWrites>>
    ELSE IF Truthy(Get(globalState, OsConfig(id).inputKey))
    THEN /\ osRuns' = Append(osRuns, [id |-> id, object |-> services[id].object,
                                       named |-> services[id].named,
                                       at |-> "written"])
         /\ Update(id, OsConfig(id).outputKey, Get(globalState, OsConfig(id).inputKey))
    ELSE /\ osRuns' = Append(osRuns, [id |-> id, object |-> services[id].object,
                                       named |-> services[id].named,
                                       at |-> "skipped"])
         /\ UNCHANGED <<globalState, stateWrites>>

InitOs ==
    /\ Constructed
    /\ NotValidated
    /\ NoSPC
    /\ NoContext
    /\ NoPath
    /\ NoThreshold
    /\ NoCli
    /\ NoOs

\* registerService(id, config): a new service object with status 'stopped'
\* takes the place of the one the map held; runningServices is left alone
RegisterService ==
    /\ registrations < MaxRegistrations
    /\ \E id \in OsIds : \E named \in OsNamed(id) :
         osServices' = [osServices EXCEPT ![id] =
              [registered |-> TRUE, object |-> registrations + 1, named |-> named,
               status |-> "stopped", after |-> "register"]]
    /\ registrations' = registrations + 1
    /\ UNCHANGED <<runningServices, globalState, osRuns, stateWrites>>
    /\ UNCHANGED besideOs

\* startService(id): status 'running', the id joins runningServices, and a
\* connector with a url is run at once
StartService ==
    /\ \E id \in OsIds :
         /\ osServices[id].registered
         /\ osServices' = [osServices EXCEPT ![id].status = "running", ![id].after = "start"]
         /\ runningServices' = runningServices \cup {id}
         /\ IF OsConfig(id).type = "connector" /\ OsConfig(id).url # ""
            THEN /\ Len(osRuns) < MaxRuns
                 /\ BeginRun(id, osServices)
            ELSE UNCHANGED <<globalState, osRuns, stateWrites>>
    /\ UNCHANGED registrations
    /\ UNCHANGED besideOs

\* stopService(id): status 'stopped', the id leaves runningServices
StopService ==
    /\ \E id \in OsIds :
         /\ osServices[id].registered
         /\ osServices' = [osServices EXCEPT ![id].status = "stopped", ![id].after = "stop"]
         /\ runningServices' = runningServices \ {id}
    /\ UNCHANGED <<globalState, osRuns, stateWrites, registrations>>
    /\ UNCHANGED besideOs

\* runService(id) on a service whose status is 'running'; on any other it
\* returns at once
RunService ==
    /\ Len(osRuns) < MaxRuns
    /\ \E id \in OsIds :
         /\ osServices[id].registered
         /\ osServices[id].status = "running"
         /\ BeginRun(id, osServices)
    /\ UNCHANGED <<osServices, runningServices, registrations>>
    /\ UNCHANGED besideOs

\* the service object a run holds gets status 'error' in the catch of
\* runService; the map shows it while it still holds this object
Failed(services, run) ==
    IF services[run.id].object = run.object
    THEN [services EXCEPT ![run.id].status = "error"]
    ELSE services

\* the fetch of a connector run settles: with a response, or with a
\* rejection that the catch of runService turns into status 'error'
OsFetchSettles ==
    /\ \E r \in 1..Len(osRuns) : \E outcome \in {"response", "rejected"} :
         /\ osRuns[r].at = "fetching"
         /\ IF outcome = "response"
            THEN /\ osRuns' = [osRuns EXCEPT ![r].at = "reading"]
                 /\ UNCHANGED osServices
            ELSE /\ osRuns' = [osRuns EXCEPT ![r].at = "failed"]
                 /\ osServices' = Failed(osServices, osRuns[r])
    /\ UNCHANGED <<runningServices, globalState, stateWrites, registrations>>
    /\ UNCHANGED besideOs

\* response.json() settles: the data goes into the global state under the
\* output key, whatever the status of the service is by now; a body that
\* does not parse ends in the catch
OsJsonSettles ==
    /\ \E r \in 1..Len(osRuns) : \E outcome \in {"parsed", "invalid"} :
         /\ osRuns[r].at = "reading"
         /\ IF outcome = "parsed"
            THEN /\ osRuns' = [osRuns EXCEPT ![r].at = "written"]
                 /\ Update(osRuns[r].id, OsOutputKey(osRuns[r].id, osRuns[r].named), Fetched(r))
                 /\ UNCHANGED osServices
            ELSE /\ osRuns' = [osRuns EXCEPT ![r].at = "failed"]
                 /\ osServices' = Failed(osServices, osRuns[r])
                 /\ UNCHANGED <<globalState, stateWrites>>
    /\ UNCHANGED <<runningServices, registrations>>
    /\ UNCHANGED besideOs

\* clearGlobalState(): this.globalState = {}
ClearGlobalState ==
    /\ globalState' = Obj(<<>>)
    /\ UNCHANGED <<osServices, runningServices, osRuns, stateWrites, registrations>>
    /\ UNCHANGED besideOs

NextOs ==
    \/ RegisterService
    \/ ClearGlobalState
    \/ StartService
    \/ StopService
    \/ RunService
    \/ OsFetchSettles
    \/ OsJsonSettles

SpecOs == InitOs /\ [][NextOs]_vars

\* ------------------------------------------------------------------------
\* Properties
\* ------------------------------------------------------------------------
Calls == 1..Len(results)
ResultOf(i) == results[i].result
RuleAt(k) == rulesConfig.rules[sortedRules[k]]

\* the cap a configuration puts on the sweeps
CapOf(config) ==
    IF Truthy(config.max_iterations) THEN config.max_iterations.n ELSE DefaultMaxIterations

\* the text calls now(), timestamp() or uuid()
CallsBuiltin(str) ==
    Includes(str, "now()") \/ Includes(str, "timestamp()") \/ Includes(str, "uuid()")

\* the rule reads the clock or draws random digits, in its condition or in
\* a template
UsesBuiltin(rule) ==
    \/ CallsBuiltin(rule.if.s)
    \/ \E i \in 1..Len(rule.then.o) : CallsBuiltin(rule.then.o[i].v.s)
Pure(config) == \A k \in 1..Len(config.rules) : ~UsesBuiltin(config.rules[k])

Contains(config, rule) == \E k \in 1..Len(config.rules) : config.rules[k] = rule

SameOutcome(i, j) ==
    /\ ResultOf(i).output = ResultOf(j).output
    /\ ResultOf(i).iterations = ResultOf(j).iterations
    /\ ResultOf(i).rulesApplied = ResultOf(j).rulesApplied

SameArguments(i, j) ==
    /\ results[i].config = results[j].config
    /\ ResultOf(i).input = ResultOf(j).input

\* C1 as stated: any two apply calls given the same input state and the
\* same rule set return the same output, the same iterations and the same
\* rulesApplied sequence.
C1_DeterminismAnyRules ==
    \A i \in Calls : \A j \in Calls : SameArguments(i, j) => SameOutcome(i, j)

\* C1 amended: two apply calls given the same input state and the same rule
\* set return the same output, iterations and rulesApplied whenever no
\* template of the rule set is now(), timestamp() or uuid().
C1_DeterminismPureRules ==
    \A i \in Calls : \A j \in Calls :
        SameArguments(i, j) /\ Pure(results[i].config) => SameOutcome(i, j)

C1_Witness ==
    \E i \in Calls : \E j \in Calls :
        /\ i < j
        /\ SameArguments(i, j)
        /\ Pure(results[i].config)
        /\ ResultOf(j).iterations >= 2
        /\ ResultOf(j).rulesApplied # <<>>

\* the call j is a re-run, with the same rule set, of the output of a call i
\* that ended on a sweep that changed nothing
Refed(i, j) ==
    /\ i < j
    /\ ~results[i].lastSweepChanged
    /\ results[j].config = results[i].config
    /\ ResultOf(j).input = ResultOf(i).output

\* C2 as stated: when apply(S, R) ends on a sweep that made no change, with
\* output S', then apply(S', R) runs exactly one sweep and returns S'.
C2_IdempotenceAnyRules ==
    \A i \in Calls : \A j \in Calls :
        Refed(i, j) => ResultOf(j).iterations = 1 /\ ResultOf(j).output = ResultOf(i).output

\* C2 amended: when apply(S, R) ends on a sweep that made no change, with
\* output S', and no template of R is now(), timestamp() or uuid(), then
\* apply(S', R) runs exactly one sweep and returns S'.
C2_IdempotencePureRules ==
    \A i \in Calls : \A j \in Calls :
        Refed(i, j) /\ Pure(results[i].config) =>
            ResultOf(j).iterations = 1 /\ ResultOf(j).output = ResultOf(i).output

C2_Witness ==
    \E i \in Calls : \E j \in Calls :
        /\ Refed(i, j)
        /\ Pure(results[i].config)
        /\ ResultOf(i).iterations >= 2
        /\ ResultOf(i).output # ResultOf(i).input
        /\ ResultOf(j).rulesApplied # <<>>

\* C3 as stated: a rule set holding a rule whose condition is always true
\* and whose write always differs from the state (toggle: flag := !flag)
\* never runs more sweeps than the cap, and apply returns with iterations
\* equal to max_iterations, 10 when none is configured.
C3_IterationCap ==
    /\ iteration <= maxIterations
    /\ \A i \in Calls :
         Contains(results[i].config, RuleToggle) =>
             ResultOf(i).iterations = CapOf(results[i].config)

\* C3: a rule set holding a rule whose condition is always true and whose
\* write always differs from the state (toggle: flag := !flag) always
\* returns: no call runs more sweeps than max_iterations, or than 10 when
\* max_iterations is absent or 0, and apply returns with iterations equal
\* to that number; when max_iterations is negative apply returns without
\* running a sweep, with iterations 0.
C3_IterationCapOrNoSweep ==
    /\ iteration <= maxIterations \/ iteration = 0
    /\ \A i \in Calls :
         Contains(results[i].config, RuleToggle) =>
             /\ CapOf(results[i].config) < 0 => ResultOf(i).iterations = 0
             /\ CapOf(results[i].config) >= 0 =>
                    ResultOf(i).iterations = CapOf(results[i].config)

C3_Witness ==
    \E i \in Calls :
        /\ Contains(results[i].config, RuleToggle)
        /\ results[i].config.max_iterations = Undefined
        /\ ResultOf(i).iterations = 10

\* the entries the rules of the last sweep left in the audit trail, one per
\* rule in the order the sweep took them
IsMarker(entry) == entry.message[1] = "--- Iteration "
LastMarker(audit) == CHOOSE i \in 1..Len(audit) :
    IsMarker(audit[i]) /\ \A j \in (i + 1)..Len(audit) : ~IsMarker(audit[j])
IsDecision(entry) == entry.message[1] \in {"Applied:", "Skipped:"}
FinalDecisions ==
    SelectSeq(SubSeq(auditTrail, LastMarker(auditTrail) + 1, Len(auditTrail)), IsDecision)
AppliedInFinalSweep(k) == IsApplied(FinalDecisions[k])

\* the positions in the sweep of the rules that wrote path in the last sweep
Writers(path) ==
    {k \in 1..Len(sortedRules) : AppliedInFinalSweep(k) /\ HasKey(RuleAt(k).then, path)}
Last(positions) == CHOOSE k \in positions : \A h \in positions : h <= k

\* a then value that is written as it stands
IsLiteral(value) ==
    value.t # "string" \/ ~(Includes(value.s, "{{") /\ Includes(value.s, "}}"))

\* C4: when apply returns, every path written in the last sweep (and not
\* overwritten since through a prefix or an extension of it) holds the value
\* set by the last of the rules, in the order the sweep ran the sorted
\* rules, that wrote it -- also when an earlier rule of the sweep wrote the
\* path, which is logged as a conflict and never blocks the write.
C4_LastWriterWins ==
    pc = "done" =>
        \A i \in 1..Len(written.o) :
            LET path == written.o[i].k
                last == Last(Writers(path))
            IN /\ Writers(path) # {}
               /\ Get(iterationChanges, path) = RuleAt(last).name
               /\ ReadPath(currentState, path) = written.o[i].v
               /\ IsLiteral(Get(RuleAt(last).then, path)) =>
                      ReadPath(currentState, path) = Get(RuleAt(last).then, path)

C4_Witness ==
    /\ pc = "done"
    /\ \E c \in 1..Len(conflictLog) :
         /\ conflictLog[c].iteration = iteration
         /\ conflictLog[c].previousRule # conflictLog[c].currentRule
         /\ HasKey(written, conflictLog[c].field)
         /\ Cardinality(Writers(conflictLog[c].field)) >= 2
         /\ IsLiteral(Get(RuleAt(Last(Writers(conflictLog[c].field))).then,
                          conflictLog[c].field))

\* the priority number a rule counts with: its own, 999 when it has none
PriorityNumber(rule) ==
    IF rule.priority = Undefined THEN DefaultPriority ELSE rule.priority.n

\* C5: in every sweep the rules are taken in ascending order of priority
\* number, a rule without priority counting as 999 and rules of equal
\* priority in list order; a rule of priority 0 comes before any rule of a
\* higher priority.
C5_AscendingPriority ==
    pc \in {"while", "for", "done"} =>
        \A h \in 1..Len(sortedRules) : \A k \in 1..Len(sortedRules) :
            h < k =>
                \/ PriorityNumber(RuleAt(h)) < PriorityNumber(RuleAt(k))
                \/ /\ PriorityNumber(RuleAt(h)) = PriorityNumber(RuleAt(k))
                   /\ sortedRules[h] < sortedRules[k]


\* the conflict scenario: rule A (priority 1) and rule B (priority 2), both
\* always true, writing x: 1 and x: 2
IsConflictScenario(config) == config.rules \in {<<RuleA, RuleB>>, <<RuleB, RuleA>>}

ConflictAB(k) ==
    [field |-> <<"x">>, previousRule |-> Str(<<"A">>), currentRule |-> Str(<<"B">>),
     resolution |-> "priority_override", iteration |-> k]

\* C6 as stated: with rules A (priority 1, x: 1) and B (priority 2, x: 2),
\* both always true (and no max_iterations configured), one apply call
\* returns exactly one conflict entry, for field x with previousRule A and
\* currentRule B, and output.x == 2.
C6_OneConflictEntry ==
    \A i \in Calls :
        /\ IsConflictScenario(results[i].config)
        /\ results[i].config.max_iterations = Undefined =>
            /\ Len(ResultOf(i).conflicts) = 1
            /\ ResultOf(i).conflicts[1].field = <<"x">>
            /\ ResultOf(i).conflicts[1].previousRule = Str(<<"A">>)
            /\ ResultOf(i).conflicts[1].currentRule = Str(<<"B">>)
            /\ Get(ResultOf(i).output, "x") = Num(2)

\* C6 amended: with rules A (priority 1, x: 1) and B (priority 2, x: 2),
\* both always true, every sweep changes the state, the run stops at the
\* iteration cap, and the conflicts list holds one entry per sweep (10 by
\* default), each for field x with previousRule A and currentRule B, the
\* k-th with iteration k; output.x == 2.
C6_OneConflictEntryPerSweep ==
    \A i \in Calls :
        IsConflictScenario(results[i].config) =>
            /\ ResultOf(i).iterations = CapOf(results[i].config)
            /\ Len(ResultOf(i).conflicts) = ResultOf(i).iterations
            /\ \A k \in 1..Len(ResultOf(i).conflicts) : ResultOf(i).conflicts[k] = ConflictAB(k)
            /\ Get(ResultOf(i).output, "x") = Num(2)

C6_Witness ==
    \E i \in Calls :
        /\ results[i].config.rules = <<RuleA, RuleB>>
        /\ results[i].config.max_iterations = Undefined
        /\ Len(ResultOf(i).conflicts) = 10
        /\ ResultOf(i).conflicts[10] = ConflictAB(10)

\* the call i is the status scenario: input {} with r1 (priority 1, if true,
\* status: "A") and r2 (priority 2, if true, status: "B")
IsStatusScenario(i) ==
    /\ ResultOf(i).input = Obj(<<>>)
    /\ results[i].config.rules = <<RuleR1, RuleR2>>

StatusB == Obj(<<Entry("status", Str(<<"B">>))>>)

\* C7 as stated: in the status scenario apply converges in iteration 2
\* (sweep 2 makes no change): iterations == 2 and output {status: "B"},
\* without reaching the iteration cap.
C7_ConvergesInTwo ==
    \A i \in Calls :
        IsStatusScenario(i) /\ results[i].config.max_iterations = Undefined =>
            /\ ResultOf(i).iterations = 2
            /\ ~results[i].lastSweepChanged
            /\ ResultOf(i).iterations < CapOf(results[i].config)
            /\ ResultOf(i).output = StatusB

\* C7 amended: in the status scenario apply does not converge: in every
\* sweep r1 sets status back to "A" and r2 to "B", so every sweep changes
\* the state and the run stops at the iteration cap, returning iterations ==
\* max_iterations (10 by default) and output {status: "B"}.
C7_StopsAtCap ==
    \A i \in Calls :
        IsStatusScenario(i) =>
            /\ ResultOf(i).iterations = CapOf(results[i].config)
            /\ results[i].lastSweepChanged
            /\ ResultOf(i).output = StatusB

C7_Witness ==
    \E i \in Calls :
        /\ IsStatusScenario(i)
        /\ results[i].config.max_iterations = Undefined
        /\ ResultOf(i).iterations = 10
        /\ Len(ResultOf(i).rulesApplied) = 20

\* the call i is the doubling scenario: input {a: 1}, the one rule double
\* and max_iterations 10
IsDoublingScenario(i) ==
    /\ ResultOf(i).input = Obj(<<Entry("a", Num(1))>>)
    /\ results[i].config = DoublingConfig

\* C8: the doubling scenario returns output {a: 16} and rulesApplied
\* [double, double, double, double].
C8_DoublingResult ==
    \A i \in Calls :
        IsDoublingScenario(i) =>
            /\ ResultOf(i).output = Obj(<<Entry("a", Num(16))>>)
            /\ ResultOf(i).rulesApplied = <<<<"double">>, <<"double">>, <<"double">>, <<"double">>>>

C8_Witness ==
    \E i \in Calls :
        /\ IsDoublingScenario(i)
        /\ Get(ResultOf(i).output, "a") = Num(16)
        /\ Len(ResultOf(i).rulesApplied) = 4

\* C9 as stated: the doubling scenario reports iterations == 4.
C9_FourIterations ==
    \A i \in Calls : IsDoublingScenario(i) => ResultOf(i).iterations = 4

\* C9 amended: the doubling scenario reports iterations == 5: four sweeps
\* that double a, and a fifth in which the condition 16 < 10 is false and
\* nothing changes.
C9_FiveIterations ==
    \A i \in Calls :
        IsDoublingScenario(i) =>
            ResultOf(i).iterations = 5 /\ ~results[i].lastSweepChanged

C9_Witness ==
    \E i \in Calls :
        /\ IsDoublingScenario(i)
        /\ ResultOf(i).iterations = 5
        /\ ResultOf(i).audit[Len(ResultOf(i).audit) - 1].message
             = <<"Skipped:", " ", "double", " (condition not met)">>

OnePlusOne == Str(<<"{{", " ", "1", " ", "+", " ", "1", " ", "}}">>)

\* C10: when apply returns, a path last written in the last sweep from a
\* then value that is not a string, or is a string without {{ }}, holds that
\* value as it stands, and a path last written from "{{ 1 + 1 }}" holds the
\* number 2, not a string.
C10_TemplatePassthrough ==
    pc = "done" =>
        \A i \in 1..Len(written.o) :
            LET path == written.o[i].k
                value == Get(RuleAt(Last(Writers(path))).then, path)
            IN /\ IsLiteral(value) => ReadPath(currentState, path) = value
               /\ value = OnePlusOne => ReadPath(currentState, path) = Num(2)

C10_Witness ==
    /\ pc = "done"
    /\ HasKey(written, <<"n">>) /\ HasKey(written, <<"msg">>)
    /\ HasKey(written, <<"user", ".", "level">>)
    /\ Get(currentState, "n") = Num(2)
    /\ Get(currentState, "msg") = Str(<<"plain", " ", "text">>)
    /\ ReadPath(currentState, <<"user", ".", "level">>) = Num(7)


\* ------------------------------------------------------------------------
\* Templates inside a longer string
\* ------------------------------------------------------------------------
\* the text is one template as a whole: {{ at its head, }} at its end and
\* no brace in between
IsWholeTemplate(str) ==
    /\ Len(Trim(str)) >= 2
    /\ Head(Trim(str)) = "{{"
    /\ Trim(str)[Len(Trim(str))] = "}}"
    /\ \A i \in 2..(Len(Trim(str)) - 1) : Trim(str)[i] \notin {"{{", "}}"}

\* a string with {{ and }} in it that is not one template as a whole
IsEmbedded(value) ==
    /\ value.t = "string"
    /\ Includes(value.s, "{{") /\ Includes(value.s, "}}")
    /\ ~IsWholeTemplate(value.s)

IsEmbedScenario(i) == results[i].config.rules = <<RuleEmbed>>

HasError(audit, head) ==
    \E k \in 1..Len(audit) : audit[k].level = "error" /\ audit[k].message[1] = head

\* C11: when apply returns, a path last written in the last sweep from a
\* then value that contains {{ }} without being one template as a whole
\* (text around a template, or two templates joined by an operator) holds
\* that string unchanged: the value is never evaluated.
C11_EmbeddedNeverEvaluated ==
    pc = "done" =>
        \A i \in 1..Len(written.o) :
            LET path == written.o[i].k
                value == Get(RuleAt(Last(Writers(path))).then, path)
            IN IsEmbedded(value) => ReadPath(currentState, path) = value

\* what resolveValue does with such a value: every {{ and }} is taken out
\* and the rest is evaluated as one expression.  The rule embed shows both
\* outcomes: "Result: {{x}}" becomes the text Result: x, whose evaluation
\* fails, so the string is written unchanged and an error entry is logged;
\* "{{x}} + {{ 1 }}" becomes x + 1 and is written as the number x + 1 when
\* the input has a number x, and unchanged when x is unbound.
EmbeddedStrippedAndEvaluated ==
    \A i \in Calls :
        IsEmbedScenario(i) =>
            /\ Get(ResultOf(i).output, "label") = Get(RuleEmbed.then, <<"label">>)
            /\ HasError(ResultOf(i).audit, "Template resolution failed:")
            /\ Get(ResultOf(i).output, "sum") =
                 IF Get(ResultOf(i).input, "x").t = "number"
                 THEN Num(Get(ResultOf(i).input, "x").n + 1)
                 ELSE Get(RuleEmbed.then, <<"sum">>)

\* a call of the rule embed on an input with x: 2 has returned sum: 3
EmbeddedSumEvaluated ==
    \E i \in Calls :
        /\ IsEmbedScenario(i)
        /\ Get(ResultOf(i).input, "x") = Num(2)
        /\ Get(ResultOf(i).output, "sum") = Num(3)
        /\ Get(ResultOf(i).output, "label").t = "string"


\* ------------------------------------------------------------------------
\* Conditions that are no expression, and failing evaluations
\* ------------------------------------------------------------------------
\* how often the rule name stands in a rulesApplied list
Occurrences(name, applied) == Len(SelectSeq(applied, LAMBDA a : a = JSToString(name)))

\* C12: a rule without if, or with if: true, is applied in every sweep of a
\* call, and a rule with if: false is applied in none.
C12_BooleanConditionItself ==
    \A i \in Calls : \A k \in 1..Len(results[i].config.rules) :
        LET rule == results[i].config.rules[k]
        IN /\ rule.if \in {Undefined, Bool(TRUE)} =>
                Occurrences(rule.name, ResultOf(i).rulesApplied) >= ResultOf(i).iterations
           /\ rule.if = Bool(FALSE) =>
                Occurrences(rule.name, ResultOf(i).rulesApplied) = 0

\* the condition of the rule fails on the state: its evaluation throws
ConditionFails(rule, state) ==
    Truthy(rule.if) /\ ~Evaluate(JSToString(rule.if), createSafeContext(state)).ok

\* the rule the for loop stands at is being taken
TakesRule == pc = "for" /\ ruleIndex <= Len(sortedRules) /\ ruleIndex' = ruleIndex + 1

\* C13: when the condition of the rule the sweep stands at fails to
\* evaluate, the rule is skipped with the state unchanged (and logged as
\* skipped), no error leaves apply, and the sweep goes on with the next rule.
C13_ConditionFailureRecovered ==
    [][TakesRule /\ ConditionFails(CurrentRule, currentState) =>
          /\ pc' = "for"
          /\ currentState' = currentState
          /\ changed' = changed
          /\ conflictLog' = conflictLog
          /\ auditTrail'[Len(auditTrail')].message[1] = "Skipped:"]_vars

\* the template fails on the state: its evaluation throws
TemplateFails(value, state) ==
    /\ value.t = "string"
    /\ Includes(value.s, "{{") /\ Includes(value.s, "}}")
    /\ Trim(StripBraces(value.s)) \notin {<<"now()">>, <<"timestamp()">>, <<"uuid()">>}
    /\ ~Evaluate(Trim(StripBraces(value.s)), createSafeContext(state)).ok

\* the rule's condition holds on the state and the rule has a then clause
Applies(rule, state) ==
    /\ evaluateCondition(rule.if, state, <<>>).result
    /\ ~evaluateCondition(rule.if, state, <<>>).raised
    /\ Truthy(rule.then)

\* a later entry of the then clause writes above or below the i-th path
OverwrittenLater(then, i) ==
    \E j \in (i + 1)..Len(then.o) : Overlap(then.o[j].k, then.o[i].k)

\* C14: when a rule is applied and one of its templates fails to evaluate,
\* no error leaves apply, the template string is written unchanged to its
\* path, and the literal entries of the then clause are written as well.
C14_TemplateFailureWritesLiteral ==
    [][TakesRule /\ Applies(CurrentRule, currentState) =>
          /\ pc' = "for"
          /\ \A i \in 1..Len(CurrentRule.then.o) :
               LET e == CurrentRule.then.o[i]
               IN (TemplateFails(e.v, currentState) \/ IsLiteral(e.v))
                  /\ ~OverwrittenLater(CurrentRule.then, i)
                    => ReadPath(currentState', e.k) = e.v]_vars


\* ------------------------------------------------------------------------
\* Isolation of the input and of the logs
\* ------------------------------------------------------------------------
\* C15: apply works on a copy of the input: during and after a call the
\* caller's input object holds what it held when it was passed and the
\* working state is another object; in every Result, input is the object
\* that was passed, with that content, and output is another object.
C15_InputIsolation ==
    /\ pc \in {"while", "for", "done", "raised"} =>
         /\ callerInput = inputData
         /\ stateRef # inputRef
    /\ \A i \in Calls : results[i].refs.output # results[i].refs.input
    /\ pc = "done" =>
         /\ ResultOf(Len(results)).input = inputData
         /\ results[Len(results)].refs.input = inputRef
         /\ ResultOf(Len(results)).output = currentState

C15_Witness ==
    /\ pc = "done"
    /\ inputData # Obj(<<>>)
    /\ callerInput = inputData
    /\ currentState # inputData
    /\ Get(currentState, "user") # Get(inputData, "user")
    /\ ResultOf(Len(results)).iterations >= 2

HasWarning(audit, head) ==
    \E k \in 1..Len(audit) : audit[k].level = "warning" /\ audit[k].message[1] = head

\* C16: a call whose last sweep still changed the state when the cap was
\* reached returns a Result with iterations == max_iterations and a warning
\* entry about the cap in its audit.
C16_NonConvergenceReported ==
    \A i \in Calls :
        results[i].lastSweepChanged /\ ResultOf(i).iterations >= 1 =>
            /\ ResultOf(i).iterations = CapOf(results[i].config)
            /\ HasWarning(ResultOf(i).audit, "Stopped at max iterations:")
            /\ ResultOf(i).audit[Len(ResultOf(i).audit) - 1].message =
                 <<"Stopped at max iterations:", " ", NatStr(CapOf(results[i].config))>>

C16_Witness ==
    \E i \in Calls :
        /\ results[i].lastSweepChanged
        /\ results[i].config.max_iterations = Undefined
        /\ ResultOf(i).iterations = 10
        /\ HasWarning(ResultOf(i).audit, "Stopped at max iterations:")

\* the entries of an audit whose message starts with head
Entries(audit, head) == SelectSeq(audit, LAMBDA e : e.message[1] = head)

\* C17: every Result holds only what its own call logged: its audit starts
\* with the one "Starting rule application" entry of the call, its
\* conflicts are those the audit of the call reports, each from a sweep of
\* the call; and the arrays of a Result are those of the engine only until
\* the next call, which builds new ones, so that no later call changes them.
C17_LogsPerCall ==
    /\ \A i \in Calls :
         /\ ResultOf(i).audit[1].message = <<"Starting rule application">>
         /\ Len(Entries(ResultOf(i).audit, "Starting rule application")) = 1
         /\ Len(ResultOf(i).conflicts) = Len(Entries(ResultOf(i).audit, "Conflict:"))
         /\ \A c \in 1..Len(ResultOf(i).conflicts) :
              ResultOf(i).conflicts[c].iteration \in 1..ResultOf(i).iterations
         /\ results[i].refs.audit = auditRef \/ results[i].refs.conflicts = conflictRef =>
              /\ i = Len(results)
              /\ pc = "done"
              /\ auditTrail = ResultOf(i).audit
              /\ conflictLog = ResultOf(i).conflicts
    /\ pc \in {"while", "for", "raised"} =>
         /\ auditTrail[1].message = <<"Starting rule application">>
         /\ Len(Entries(auditTrail, "Starting rule application")) = 1
         /\ Len(conflictLog) = Len(Entries(auditTrail, "Conflict:"))

C17_Witness ==
    /\ Len(results) = 2
    /\ pc = "done"
    /\ ResultOf(1).conflicts # <<>>
    /\ ResultOf(2).conflicts # <<>>
    /\ Len(ResultOf(1).conflicts) = Len(ResultOf(2).conflicts)
    /\ results[1].refs.audit # results[2].refs.audit
    /\ results[1].refs.conflicts # results[2].refs.conflicts


\* ------------------------------------------------------------------------
\* A rules property that is no array
\* ------------------------------------------------------------------------
\* C19 as stated: an apply call whose rulesConfig.rules is no array never
\* reaches the sweeps and never returns a Result.
C19_FailsFast ==
    /\ pc \in {"while", "for", "done"} => rulesConfig.rulesType = "array"
    /\ \A i \in Calls : results[i].config.rulesType = "array"

\* C19 amended: a missing or null rulesConfig.rules is taken as the empty
\* list: the call logs "Rules: 0", runs one sweep without rules and returns
\* an ordinary Result with iterations == 1, no rule applied and the output
\* equal to the input.  A number (not 0) as rules makes the call raise,
\* before the first sweep and without a Result.
C19_MissingRulesTolerated ==
    /\ rulesConfig.rulesType \in {"undefined", "null"} =>
         pc # "raised" /\ sortedRules = <<>> /\ iteration <= 1
    /\ rulesConfig.rulesType = "number" /\ pc # "idle" =>
         pc = "raised" /\ iteration = 0
    /\ \A i \in Calls :
         /\ results[i].config.rulesType # "number"
         /\ results[i].config.rulesType \in {"undefined", "null"} =>
              /\ ResultOf(i).iterations = 1
              /\ ResultOf(i).rulesApplied = <<>>
              /\ ResultOf(i).output = ResultOf(i).input
              /\ ResultOf(i).audit[2].message = <<"Rules:", " ", "0">>

C19_Witness ==
    \E i \in Calls :
        /\ results[i].config.rulesType = "undefined"
        /\ ResultOf(i).input # Obj(<<>>)
        /\ ResultOf(i).iterations = 1
        /\ Len(ResultOf(i).audit) = 5


\* ------------------------------------------------------------------------
\* Conflict entries
\* ------------------------------------------------------------------------
\* C20 as stated: every conflict entry names two different rules.
C20_ConflictsBetweenDifferentRules ==
    \A c \in 1..Len(conflictLog) :
        conflictLog[c].previousRule # conflictLog[c].currentRule

\* the paths of the then clause that the sweep has already written
WrittenBefore(then) ==
    {i \in 1..Len(then.o) : HasKey(iterationChanges, then.o[i].k)}

\* the entries that a turn of the for loop has added to the conflict log
Added == SubSeq(conflictLog', Len(conflictLog) + 1, Len(conflictLog'))

\* the rule name is that of one rule of the list only
UniqueName(name) ==
    Cardinality({k \in 1..Len(rulesConfig.rules) : rulesConfig.rules[k].name = name}) = 1

\* C20 amended: a conflict entry is created exactly when an applied rule
\* writes a path that has been written earlier in the same sweep, by
\* whichever rule: the write log is empty at the head of every sweep, a rule
\* that is applied adds one entry per path of its then clause that the log
\* already holds, with the name logged for the path as previousRule, its
\* own name as currentRule and the number of the sweep, and no entry
\* otherwise.  previousRule differs from currentRule when the names of the
\* rule set are unique; two rules of one name conflict under that one name.
C20_ConflictsOnEarlierWrites ==
    /\ [][pc = "while" /\ pc' = "for" => iterationChanges' = Obj(<<>>)]_vars
    /\ [][TakesRule /\ pc' = "for" =>
            IF Applies(CurrentRule, currentState)
            THEN /\ Len(Added) = Cardinality(WrittenBefore(CurrentRule.then))
                 /\ \A c \in 1..Len(Added) :
                      /\ HasKey(iterationChanges, Added[c].field)
                      /\ HasKey(CurrentRule.then, Added[c].field)
                      /\ Added[c].previousRule = Get(iterationChanges, Added[c].field)
                      /\ Added[c].currentRule = CurrentRule.name
                      /\ Added[c].iteration = iteration
                      /\ UniqueName(CurrentRule.name) =>
                           Added[c].previousRule # Added[c].currentRule
                 /\ \A i \in 1..Len(CurrentRule.then.o) :
                      Get(iterationChanges', CurrentRule.then.o[i].k) = CurrentRule.name
            ELSE conflictLog' = conflictLog /\ iterationChanges' = iterationChanges]_vars

C20_Witness ==
    /\ pc = "done"
    /\ iteration >= 2
    /\ \E c \in 1..Len(conflictLog) : \E d \in 1..Len(conflictLog) :
         /\ conflictLog[c].iteration = 1 /\ conflictLog[d].iteration = 2
         /\ conflictLog[c].field = conflictLog[d].field
         /\ conflictLog[c].previousRule # conflictLog[c].currentRule
    /\ \E k \in 1..Len(sortedRules) : \E i \in 1..Len(RuleAt(k).then.o) :
         \A c \in 1..Len(conflictLog) : conflictLog[c].field # RuleAt(k).then.o[i].k

\* ------------------------------------------------------------------------
\* C18: validate
\* ------------------------------------------------------------------------
\* the four checks of the rule at position i of a rule list
NameOk(rules, i) ==
    /\ rules[i].name.t = "string" /\ rules[i].name.s # <<>>
    /\ \A j \in 1..(i - 1) : rules[j].name # rules[i].name
PriorityOk(rule) ==
    rule.priority = Undefined \/ (rule.priority.t = "number" /\ rule.priority.n >= 0)
StringConditionOk(rule) == rule.if.t = "string" => Compiles(rule.if.s)
ConditionOk(rule) ==
    rule.if.t \in {"string", "object"} /\ rule.if # Str(<<>>) => Compiles(JSToString(rule.if))
ClausesOk(rule) == rule.then # Undefined \/ rule.else # Undefined

\* the violated checks of a rule list, as pairs of position and check
ViolatedOutsideCondition(rules) ==
    {<<i, "name">> : i \in {k \in 1..Len(rules) : ~NameOk(rules, k)}}
    \cup {<<i, "priority">> : i \in {k \in 1..Len(rules) : ~PriorityOk(rules[k])}}
    \cup {<<i, "clauses">> : i \in {k \in 1..Len(rules) : ~ClausesOk(rules[k])}}
ViolatedStrings(rules) ==
    ViolatedOutsideCondition(rules)
    \cup {<<i, "if">> : i \in {k \in 1..Len(rules) : ~StringConditionOk(rules[k])}}
Violated(rules) ==
    ViolatedOutsideCondition(rules)
    \cup {<<i, "if">> : i \in {k \in 1..Len(rules) : ~ConditionOk(rules[k])}}

Validated == validateCalls > 0

\* C18 (as stated): for a rules array, validate returns the empty list
\* exactly when every rule has a non-empty name unique within the set, a
\* priority that is absent or a non-negative number, an if that, when it
\* is a string, parses, and one of then/else; each violated check adds
\* one error message; the rule set is never modified.
C18_ValidateChecksStringConditions ==
    /\ [](Validated /\ ~RulesMissing(validateConfig) =>
            /\ validateErrors = <<>> <=> ViolatedStrings(validateConfig.rules) = {}
            /\ Len(validateErrors) = Cardinality(ViolatedStrings(validateConfig.rules)))
    /\ [][validateConfig' = validateConfig]_vars

\* C18 (amended): for a rules array, validate returns one error message
\* per violated check, so the empty list exactly when no check is
\* violated, where the check of if compiles every truthy if as the text
\* it converts to, an object included; without a rules array it returns
\* the one message about the array; the rule set is never modified.
C18_ValidateChecksTruthyConditions ==
    /\ [](Validated =>
            IF RulesMissing(validateConfig)
            THEN validateErrors = <<<<"Rules configuration must have a \"rules\" array">>>>
            ELSE /\ validateErrors = <<>> <=> Violated(validateConfig.rules) = {}
                 /\ Len(validateErrors) = Cardinality(Violated(validateConfig.rules)))
    /\ [][validateConfig' = validateConfig]_vars

\* validate has returned for a list of a well-formed rule and a rule with
\* an object as its if that also violates the checks of priority and of
\* then/else, and for that list it returned three messages
C18_Witness ==
    /\ Validated
    /\ ~RulesMissing(validateConfig)
    /\ Len(validateConfig.rules) = 2
    /\ validateConfig.rules[1] = GoodRule
    /\ validateConfig.rules[2].if.t = "object"
    /\ Cardinality(Violated(validateConfig.rules)) = 3
    /\ Len(validateErrors) = 3

\* ------------------------------------------------------------------------
\* C21: rulesApplied
\* ------------------------------------------------------------------------
\* the condition of the rule is taken as true on the state
Holds(rule, state) ==
    /\ evaluateCondition(rule.if, state, <<>>).result
    /\ ~evaluateCondition(rule.if, state, <<>>).raised

\* the names logged as applied so far in the running call
AppliedSoFar == getRulesApplied(auditTrail)

\* C21: rulesApplied is the sequence of the names of the rules whose
\* condition was taken as true, in the order of evaluation: a call starts
\* with none, each turn of the for loop adds the name of its rule when the
\* condition holds on the state it meets, with or without a then clause
\* and a change of state, and adds nothing otherwise; the head and the
\* tail of a sweep add nothing, and the Result holds the names so gathered.
C21_RulesAppliedInOrder ==
    /\ [][calls' # calls => getRulesApplied(auditTrail') = <<>>]_vars
    /\ [][TakesRule /\ pc' = "for" =>
            getRulesApplied(auditTrail') =
              IF Holds(CurrentRule, currentState)
              THEN Append(AppliedSoFar, JSToString(CurrentRule.name))
              ELSE AppliedSoFar]_vars
    /\ [][pc' # pc /\ pc \in {"while", "for"} /\ pc' \in {"while", "for"} =>
            getRulesApplied(auditTrail') = AppliedSoFar]_vars
    /\ [][pc = "while" /\ pc' = "done" =>
            results'[Len(results')].result.rulesApplied = AppliedSoFar]_vars

\* a call has returned for the rule bare, which has no then clause, and
\* the rule lit: both were applied in the first sweep and again in the
\* second, in which lit rewrote the values it had written
C21_Witness ==
    /\ pc = "done"
    /\ rulesConfig.rulesType = "array"
    /\ rulesConfig.rules = <<RuleBare, RuleLit>>
    /\ results[Len(results)].result.iterations = 2
    /\ results[Len(results)].result.rulesApplied =
         <<<<"bare">>, <<"lit">>, <<"bare">>, <<"lit">>>>

\* ------------------------------------------------------------------------
\* C22, C23: KERN
\* ------------------------------------------------------------------------
\* service a, a processor, consumes what service b produces
DependsOn(a, b) ==
    /\ spc[a].type = "processor"
    /\ spc[a].inputKey # Undefined
    /\ spc[b].outputKey = spc[a].inputKey

\* service a, of whatever type, reads the key service b writes
Consumes(a, b) == spc[a].inputKey # Undefined /\ spc[b].outputKey = spc[a].inputKey

\* the closed walks of the services
ClosedWalks ==
    UNION {[1..m -> 1..Len(spc)] : m \in 1..Len(spc)}

DependencyCycle ==
    \E walk \in ClosedWalks :
        /\ \A i \in 1..(Len(walk) - 1) : DependsOn(walk[i], walk[i + 1])
        /\ DependsOn(walk[Len(walk)], walk[1])

ConsumerCycle ==
    \E walk \in ClosedWalks :
        /\ \A i \in 1..(Len(walk) - 1) : Consumes(walk[i], walk[i + 1])
        /\ Consumes(walk[Len(walk)], walk[1])

\* C22: Compiler.validate throws Circular dependencies detected exactly
\* when the graph in which a processor depends on every service whose
\* outputKey is its inputKey has a cycle, a processor that consumes its own
\* output included; an SPC without such a cycle passes.
C22_CyclesRejected ==
    validation # "unchecked" =>
        /\ validation = "Circular dependencies detected" <=> DependencyCycle
        /\ ~DependencyCycle => validation = "passed"

\* validate has rejected an SPC of two processors, none consuming its own
\* output, each of which consumes what the other produces
C22_Witness ==
    /\ validation = "Circular dependencies detected"
    /\ Len(spc) = 2
    /\ DependsOn(1, 2) /\ DependsOn(2, 1)
    /\ ~DependsOn(1, 1) /\ ~DependsOn(2, 2)

\* the place of a service in the execution order
Place(id) == CHOOSE i \in 1..Len(executionOrder) : executionOrder[i] = id

\* C23 (amended): for an SPC in which no service of whatever type
\* consumes, directly or through others, what it produces, the execution
\* order holds every service id
\* exactly once, and every service whose outputKey is the inputKey of
\* another service stands before that service.
C23_OrderLinearizes ==
    ordered /\ ~ConsumerCycle =>
        /\ Len(executionOrder) = Len(spc)
        /\ \A id \in 1..Len(spc) :
             Cardinality({i \in 1..Len(executionOrder) : executionOrder[i] = id}) = 1
        /\ \A a \in 1..Len(spc) : \A b \in 1..Len(spc) :
             a # b /\ Consumes(a, b) => Place(b) < Place(a)

\* C23 (as stated, acyclic being what Compiler.validate passes): for an SPC
\* without a cycle of processor dependencies the execution order holds
\* every service id exactly once, and every service whose outputKey is
\* the inputKey of another service stands before that service.
C23_OrderLinearizesValidated ==
    ordered /\ ~DependencyCycle =>
        /\ Len(executionOrder) = Len(spc)
        /\ \A id \in 1..Len(spc) :
             Cardinality({i \in 1..Len(executionOrder) : executionOrder[i] = id}) = 1
        /\ \A a \in 1..Len(spc) : \A b \in 1..Len(spc) :
             a # b /\ Consumes(a, b) => Place(b) < Place(a)

\* the order has been calculated for three services of which the first
\* consumes what the second produces and the second what the third
\* produces: the order is the reverse of the listing
C23_Witness ==
    /\ ordered
    /\ ~ConsumerCycle
    /\ Len(spc) = 3
    /\ Consumes(1, 2) /\ Consumes(2, 3)
    /\ executionOrder = <<3, 2, 1>>

\* ------------------------------------------------------------------------
\* C24: the then entries of one rule
\* ------------------------------------------------------------------------
IsChainScenario(i) == results[i].config.rules = <<RuleChain>>

\* C24: the then entries of a rule are resolved and written in order,
\* each against the state the earlier entries of the same application
\* have written: the rule chain (p: 5, q: {{ p + 1 }}, r: {{ q * 2 }})
\* leaves p = 5, q = 6 and r = 12 whatever the input, with no template
\* failure logged, and its first application already does.
C24_LaterEntriesReadEarlierWrites ==
    /\ \A i \in Calls :
         IsChainScenario(i) =>
           /\ Get(ResultOf(i).output, "p") = Num(5)
           /\ Get(ResultOf(i).output, "q") = Num(6)
           /\ Get(ResultOf(i).output, "r") = Num(12)
           /\ ~HasError(ResultOf(i).audit, "Template resolution failed:")
    /\ (/\ rulesConfig.rules = <<RuleChain>>
        /\ (pc = "for" /\ ruleIndex > 1) \/ (pc = "while" /\ iteration >= 1))
       => /\ Get(currentState, "q") = Num(6)
          /\ Get(currentState, "r") = Num(12)

\* a call with the rule chain on the empty input has returned q = 6
C24_Witness ==
    \E i \in Calls :
        /\ IsChainScenario(i)
        /\ ResultOf(i).input = Obj(<<>>)
        /\ Get(ResultOf(i).output, "q") = Num(6)
        /\ Get(ResultOf(i).output, "r") = Num(12)

\* ------------------------------------------------------------------------
\* C25: the exit of the fixpoint loop
\* ------------------------------------------------------------------------
\* the application of a rule changed the state
StateChanges == JSONStringify(currentState') # JSONStringify(currentState)

\* the loop goes on exactly while the last sweep changed the state and the
\* sweep count is below the cap
GoesOn == changed /\ iteration < maxIterations

\* C25 as stated: between two sweeps apply starts another sweep exactly
\* when the sweep before changed the state and the count of sweeps is below
\* max_iterations, and returns otherwise; changed is false at the head of
\* a sweep and becomes true when the application of a rule changes the
\* state; so a call returns converged after its first sweep without a
\* change, and otherwise with the count at max_iterations.
C25_LoopExit ==
    /\ [](pc = "while" => /\ ENABLED SweepBegin <=> GoesOn
                          /\ ENABLED Return <=> ~GoesOn)
    /\ [][pc = "while" /\ pc' = "for" =>
            GoesOn /\ iteration' = iteration + 1 /\ ~changed']_vars
    /\ [][TakesRule /\ pc' = "for" => (changed' <=> changed \/ StateChanges)]_vars
    /\ [][pc = "for" /\ pc' = "while" => changed' = changed /\ iteration' = iteration]_vars
    /\ [][pc = "while" /\ pc' = "done" =>
            /\ ~GoesOn
            /\ results'[Len(results')].result.iterations = iteration
            /\ results'[Len(results')].lastSweepChanged = changed
            /\ changed => iteration = maxIterations]_vars

\* C25: between two sweeps apply starts another sweep exactly when the
\* sweep before changed the state (before the first sweep: always) and the
\* count of sweeps is below max_iterations, and returns otherwise; changed
\* is false at the head of a sweep and becomes true when the application
\* of a rule changes the state; so a call returns converged after its
\* first sweep without a change, and otherwise with the count at
\* max_iterations, or at 0, before any sweep, when max_iterations is
\* negative.
C25_LoopExitAtOrPastCap ==
    /\ [](pc = "while" => /\ ENABLED SweepBegin <=> GoesOn
                          /\ ENABLED Return <=> ~GoesOn)
    /\ [][pc = "while" /\ pc' = "for" =>
            GoesOn /\ iteration' = iteration + 1 /\ ~changed']_vars
    /\ [][TakesRule /\ pc' = "for" => (changed' <=> changed \/ StateChanges)]_vars
    /\ [][pc = "for" /\ pc' = "while" => changed' = changed /\ iteration' = iteration]_vars
    /\ [][pc = "while" /\ pc' = "done" =>
            /\ ~GoesOn
            /\ results'[Len(results')].result.iterations = iteration
            /\ results'[Len(results')].lastSweepChanged = changed
            /\ changed /\ maxIterations >= 0 => iteration = maxIterations
            /\ changed /\ maxIterations < 0 => iteration = 0
            /\ ~changed => iteration >= 1]_vars

\* a call has returned converged after three sweeps, below its cap: the
\* first two changed the state and the third did not
C25_Witness ==
    /\ pc = "done"
    /\ ~changed
    /\ iteration = 3
    /\ iteration < maxIterations

\* ------------------------------------------------------------------------
\* C26: rewriting identical values
\* ------------------------------------------------------------------------
\* every entry of the then clause is a literal that the state holds at
\* its path
HoldsAlready(then, state) ==
    \A i \in 1..Len(then.o) :
        IsLiteral(then.o[i].v) /\ ReadPath(state, then.o[i].k) = then.o[i].v

\* the state holds what the rule lit writes
HoldsLit(state) ==
    /\ Get(state, "msg") = Str(<<"plain", " ", "text">>)
    /\ Get(state, "n") = Num(2)
    /\ Get(Get(state, "user"), "level") = Num(7)

\* C26: change detection compares the serialized state before and after
\* each rule application: an applied rule that leaves the state as it was,
\* as one does whose then values the state already holds, leaves the
\* changed flag as it was, and a call in which the only rule rewrites the
\* values the input already holds returns converged after one sweep, the
\* rule having been applied.
C26_IdenticalRewriteIsNoChange ==
    /\ [][TakesRule /\ pc' = "for" /\ Applies(CurrentRule, currentState)
            /\ (HoldsAlready(CurrentRule.then, currentState) \/ currentState' = currentState)
          => /\ currentState' = currentState
             /\ changed' = changed
             /\ Get(iterationChanges', CurrentRule.then.o[1].k) = CurrentRule.name]_vars
    /\ [](\A i \in Calls :
            results[i].config.rules = <<RuleLit>> /\ HoldsLit(ResultOf(i).input) =>
                /\ ResultOf(i).iterations = 1
                /\ ~results[i].lastSweepChanged
                /\ ResultOf(i).output = ResultOf(i).input
                /\ ResultOf(i).rulesApplied = <<<<"lit">>>>)

\* a call whose only rule is lit has returned for an input that held
\* the values lit writes
C26_Witness ==
    /\ pc = "done"
    /\ rulesConfig.rules = <<RuleLit>>
    /\ HoldsLit(inputData)
    /\ iteration = 1
    /\ results[Len(results)].result.rulesApplied = <<<<"lit">>>>

\* evaluateCondition returns false for the rule on the state: its condition
\* is an expression that yields a falsy value or fails to evaluate
IsFalse(rule, state) ==
    /\ ~evaluateCondition(rule.if, state, <<>>).result
    /\ ~evaluateCondition(rule.if, state, <<>>).raised

\* the audit entry that says the rule was skipped
SkippedLine(rule) ==
    [level |-> "info",
     message |-> <<"Skipped:", " ">> \o JSToString(rule.name)
                     \o <<" (condition not met)">>]

\* C27: a rule whose condition is false is skipped: its turn of the for
\* loop appends to the audit trail an entry saying that the rule was
\* skipped (after the error entry of a condition that failed to evaluate,
\* and nothing else), and leaves the working state, the write log of the
\* sweep, the conflict log and the changed flag as they were.
C27_FalseConditionSkips ==
    [][TakesRule /\ IsFalse(CurrentRule, currentState)
         => /\ pc' = "for"
            /\ auditTrail' = Append(evaluateCondition(CurrentRule.if, currentState,
                                                      auditTrail).audit,
                                    SkippedLine(CurrentRule))
            /\ Len(auditTrail') \in {Len(auditTrail) + 1, Len(auditTrail) + 2}
            /\ SubSeq(auditTrail', 1, Len(auditTrail)) = auditTrail
            /\ currentState' = currentState
            /\ stateRef' = stateRef
            /\ callerInput' = callerInput
            /\ iterationChanges' = iterationChanges
            /\ conflictLog' = conflictLog
            /\ changed' = changed]_vars

\* a rule has just been skipped in a sweep that an earlier rule had already
\* marked as changed and in which a field had been written
C27_Witness ==
    /\ pc = "for"
    /\ ruleIndex > 1
    /\ IsFalse(rulesConfig.rules[sortedRules[ruleIndex - 1]], currentState)
    /\ auditTrail[Len(auditTrail)]
         = SkippedLine(rulesConfig.rules[sortedRules[ruleIndex - 1]])
    /\ changed
    /\ iterationChanges # Obj(<<>>)

\* the audit entry that says the rule was applied
AppliedLine(rule) ==
    [level |-> "info", message |-> <<"Applied:", " ">> \o JSToString(rule.name)]

\* the rule has no then clause
NoThenClause(rule) == ~Truthy(rule.then)

\* C28: a rule with a true condition and no then clause is a no-op that is
\* recorded as applied: its turn of the for loop appends the Applied entry
\* and nothing else to the audit trail, leaves the working state, the write
\* log of the sweep and the conflict log as they were and does not set the
\* changed flag; a call of the rule bare followed by a rule that rewrites
\* what the input holds converges after one sweep with both rules applied.
C28_NoThenIsNoOp ==
    /\ [][TakesRule /\ Holds(CurrentRule, currentState) /\ NoThenClause(CurrentRule)
            => /\ pc' = "for"
               /\ auditTrail' = Append(auditTrail, AppliedLine(CurrentRule))
               /\ currentState' = currentState
               /\ stateRef' = stateRef
               /\ callerInput' = callerInput
               /\ iterationChanges' = iterationChanges
               /\ conflictLog' = conflictLog
               /\ changed' = changed]_vars
    /\ [](\A i \in Calls :
            results[i].config.rules = <<RuleBare, RuleLit>> /\ HoldsLit(ResultOf(i).input) =>
                /\ ResultOf(i).iterations = 1
                /\ ~results[i].lastSweepChanged
                /\ ResultOf(i).output = ResultOf(i).input
                /\ ResultOf(i).rulesApplied = <<<<"bare">>, <<"lit">>>>)

\* the rule bare, which has no then clause, has just been applied as the
\* first rule of a sweep, which is not marked as changed
C28_Witness ==
    /\ pc = "for"
    /\ ruleIndex = 2
    /\ rulesConfig.rules[sortedRules[1]] = RuleBare
    /\ auditTrail[Len(auditTrail)] = AppliedLine(RuleBare)
    /\ ~changed
    /\ iterationChanges = Obj(<<>>)

\* a context has been built from contextState
ContextBuilt == safeContext # Obj(<<>>)

\* the state without its top-level keys that are named like a utility
RECURSIVE DropUtilityNamed(_)
DropUtilityNamed(es) ==
    IF es = <<>> THEN <<>>
    ELSE IF \E i \in 1..Len(Utilities) : Utilities[i] = Head(es).k
    THEN DropUtilityNamed(Tail(es))
    ELSE <<Head(es)>> \o DropUtilityNamed(Tail(es))

\* C29: in the context built from a state every name of a utility is bound
\* to the utility, whatever the state holds under that name, at the top
\* level or in the flattened keys; so a condition and a template that name
\* utilities come out as they do on the state without these keys.
C29_UtilitiesShadowState ==
    /\ ContextBuilt =>
         \A i \in 1..Len(Utilities) : Get(safeContext, Utilities[i]) = Util(Utilities[i])
    /\ \A i \in 1..Len(conditionOut) :
         conditionOut[i].outcome =
             evaluateCondition(conditionOut[i].condition,
                               Obj(DropUtilityNamed(contextState.o)), <<>>)
    /\ \A i \in 1..Len(templateOut) :
         templateOut[i].outcome =
             resolveValue(templateOut[i].template,
                          Obj(DropUtilityNamed(contextState.o)), <<>>,
                          [now |-> 0, uuids |-> 0])

\* the state holds the number 0 as Math and a number as JSON; the context
\* built from it binds Math to the utility, the condition Math < 1 was
\* found false and the template {{ Math }} resolved to the utility
C29_Witness ==
    /\ Get(contextState, "Math") = Num(0)
    /\ HasKey(contextState, "JSON")
    /\ ContextBuilt
    /\ Get(safeContext, "Math") = Util("Math")
    /\ conditionOut = <<[condition |-> Str(<<"Math", " ", "<", " ", "1">>),
                         outcome |-> [result |-> FALSE, audit |-> <<>>, raised |-> FALSE]]>>
    /\ Len(templateOut) = 1
    /\ templateOut[1].template = Str(<<"{{", " ", "Math", " ", "}}">>)
    /\ templateOut[1].outcome.value = Util("Math")

\* the leaves of a state in the order of for...in, each with its path: a
\* leaf is whatever is not an object to go into, so a number, a string, a
\* boolean, null and an array
RECURSIVE Leaves(_, _)
Leaves(es, prefix) ==
    IF es = <<>> THEN <<>>
    ELSE (IF Head(es).v.t = "object"
          THEN Leaves(Head(es).v.o, Append(prefix, Head(es).k))
          ELSE <<[path |-> Append(prefix, Head(es).k), value |-> Head(es).v]>>)
         \o Leaves(Tail(es), prefix)

StateLeaves == Leaves(contextState.o, <<>>)
IsUtility(key) == \E i \in 1..Len(Utilities) : Utilities[i] = key
ContextKeys == {safeContext.o[i].k : i \in 1..Len(safeContext.o)}
LeafKeys == {JoinUnderscore(StateLeaves[i].path) : i \in 1..Len(StateLeaves)}
TopLevelKeys == {contextState.o[i].k : i \in 1..Len(contextState.o)}
UtilityKeys == {Utilities[i] : i \in 1..Len(Utilities)}

\* the last leaf of the state that is flattened to the key
LastLeaf(key) ==
    StateLeaves[CHOOSE i \in 1..Len(StateLeaves) :
                   /\ JoinUnderscore(StateLeaves[i].path) = key
                   /\ \A j \in 1..Len(StateLeaves) :
                        JoinUnderscore(StateLeaves[j].path) = key => j <= i]

\* the context holds nothing but utilities, top-level keys of the state and
\* the flattened keys of its leaves: nothing from inside an array or null
OnlyLeavesFlattened == ContextKeys = UtilityKeys \cup TopLevelKeys \cup LeafKeys

\* the statement taken for every state, those with a key named like a
\* utility left aside: every leaf is found under its flattened key and
\* every top-level key under its own name
C30_EveryLeafExposed ==
    ContextBuilt /\ TopLevelKeys \cap UtilityKeys = {} =>
        /\ \A i \in 1..Len(StateLeaves) :
             Get(safeContext, JoinUnderscore(StateLeaves[i].path)) = StateLeaves[i].value
        /\ \A i \in 1..Len(contextState.o) :
             Get(safeContext, contextState.o[i].k) = contextState.o[i].v
        /\ OnlyLeavesFlattened

\* C30: the context built from a state holds, besides the utilities, the
\* top-level keys of the state under their own names and the leaves at
\* nested paths a.b.c under a_b_c, arrays and null being leaves that are not
\* gone into; where names meet, a utility goes before a top-level key, a
\* top-level key before a flattened leaf, and of two leaves flattened to
\* the same key the later one stays.  Building the context leaves the
\* state as it was.
C30_ContextFlattens ==
    /\ [](ContextBuilt =>
            /\ OnlyLeavesFlattened
            /\ \A key \in ContextKeys :
                 Get(safeContext, key) =
                     IF IsUtility(key) THEN Util(key)
                     ELSE IF key \in TopLevelKeys THEN Get(contextState, key)
                     ELSE LastLeaf(key).value)
    /\ [][safeContext' # safeContext => contextState' = contextState]_vars

\* a context was built from {a: {b: {c: 3}}, list: [{k: 4}]}: it holds
\* a_b_c, a and list, and no key from inside the array
C30_Witness ==
    /\ contextState = Obj(<<Entry("a", Obj(<<Entry("b", Obj(<<Entry("c", Num(3))>>))>>)),
                            Entry("list", ArrayOfObject)>>)
    /\ ContextBuilt
    /\ Get(safeContext, "a_b_c") = Num(3)
    /\ Get(safeContext, "a") = Get(contextState, "a")
    /\ Get(safeContext, "list") = ArrayOfObject
    /\ ~HasKey(safeContext, "list_0_k")
    /\ ~HasKey(safeContext, "a_b")

\* the key sequences that lead to a value of an object, the empty one for
\* the object itself
RECURSIVE PathsOf(_)
PathsOf(v) ==
    {<<>>} \cup
    (IF v.t \in {"object", "array"}
     THEN UNION {{<<v.o[i].k>> \o q : q \in PathsOf(v.o[i].v)} : i \in 1..Len(v.o)}
     ELSE {})

IsPrefix(p, q) == Len(p) <= Len(q) /\ SubSeq(q, 1, Len(p)) = p

\* reading the path of the call in the object afterwards yields the value
ReadsBack(call) == ReadKeys(pathObject, Split(call.path)) = call.value

\* every intermediate segment of the path holds a mapping afterwards
IntermediatesAreMappings(call) ==
    \A n \in 1..(Len(Split(call.path)) - 1) :
        ReadKeys(pathObject, SubSeq(Split(call.path), 1, n)).t = "object"

\* a mapping at an intermediate segment is still there with its other keys
MappingsKeepKeys(call) ==
    \A n \in 0..(Len(Split(call.path)) - 1) :
        LET held == ReadKeys(call.before, SubSeq(Split(call.path), 1, n))
            now == ReadKeys(pathObject, SubSeq(Split(call.path), 1, n))
        IN held.t = "object" =>
               \A i \in 1..Len(held.o) :
                   held.o[i].k # Split(call.path)[n + 1] =>
                       Get(now, held.o[i].k) = held.o[i].v

\* what was at a path that is neither a prefix nor an extension of the
\* path of the call is still there
OtherPathsKept(call) ==
    \A q \in PathsOf(call.before) :
        ~IsPrefix(q, Split(call.path)) /\ ~IsPrefix(Split(call.path), q) =>
            ReadKeys(pathObject, q) = ReadKeys(call.before, q)

\* C31: after setNestedPath(obj, p, v) reading p yields v, every
\* intermediate segment holds a mapping (one that was missing or held a
\* number, null or an array having been replaced), mappings on the way keep
\* their other keys, and the paths beside p keep their values.
C31_PathWriter ==
    \A c \in 1..Len(pathCalls) :
        /\ ReadsBack(pathCalls[c])
        /\ IntermediatesAreMappings(pathCalls[c])
        /\ MappingsKeepKeys(pathCalls[c])
        /\ OtherPathsKept(pathCalls[c])

\* the sweeps a call ran, by the markers they left in its audit trail
SweepsRun(audit) == Len(SelectSeq(audit, IsMarker))

\* max_iterations as the claim reads it: the configured value, or 10 when
\* none is given
ConfiguredCap(config) ==
    IF config.max_iterations = Undefined THEN DefaultMaxIterations
    ELSE config.max_iterations.n

\* C32 as stated: whatever the input and the rule list, an empty one
\* included, the iterations of a Result is the number of sweeps that were
\* run, and it is at least 1 and at most max_iterations, the configured
\* value or 10 when none is configured.
C32_IterationBounds ==
    /\ pc \in {"while", "for", "done"} => iteration = SweepsRun(auditTrail)
    /\ \A i \in Calls :
         /\ ResultOf(i).iterations = SweepsRun(ResultOf(i).audit)
         /\ 1 <= ResultOf(i).iterations
         /\ ResultOf(i).iterations <= ConfiguredCap(results[i].config)

\* C32: whatever the input and the rule list, an empty one included, the
\* iterations of a Result is the number of sweeps that were run. With a
\* positive max_iterations it is at least 1 and at most max_iterations;
\* with max_iterations absent or 0 it is at least 1 and at most 10; with a
\* negative max_iterations no sweep is run and it is 0. While a sweep runs
\* its number is at least 1 and at most the cap in force.
C32_IterationBoundsByCap ==
    /\ pc = "for" => 1 <= iteration /\ iteration <= maxIterations
    /\ pc \in {"while", "for", "done"} => iteration = SweepsRun(auditTrail)
    /\ \A i \in Calls :
         LET cap == results[i].config.max_iterations
         IN /\ ResultOf(i).iterations = SweepsRun(ResultOf(i).audit)
            /\ cap \in {Undefined, ZeroCap} =>
                   1 <= ResultOf(i).iterations
                   /\ ResultOf(i).iterations <= DefaultMaxIterations
            /\ cap.t = "number" /\ cap.n > 0 =>
                   1 <= ResultOf(i).iterations /\ ResultOf(i).iterations <= cap.n
            /\ cap.t = "number" /\ cap.n < 0 => ResultOf(i).iterations = 0

\* a call with max_iterations 0 and the toggle rule has returned after ten
\* sweeps, and so has a second call with the same configuration
C32_Witness ==
    /\ Len(results) = 2
    /\ results[1].config.rules = <<RuleToggle>>
    /\ results[1].config.max_iterations = ZeroCap
    /\ ResultOf(1).iterations = DefaultMaxIterations
    /\ ResultOf(2).iterations = DefaultMaxIterations

\* C33: the warning about the cap is only found in the audit of a run that
\* did not converge: a Result whose last sweep made no change has no
\* 'Stopped at max iterations' entry, also when that sweep was sweep number
\* max_iterations.
C33_WarningOnlyWhenNotConverged ==
    \A i \in Calls :
        ~results[i].lastSweepChanged =>
            ~HasWarning(ResultOf(i).audit, "Stopped at max iterations:")

\* the then clause of the rule carried out on the state alone, at clock
\* reading now
AppliedAlone(rule, state, now) ==
    applyTransformationsWithTracking(state, rule.then, rule.name,
        [newState |-> state, changes |-> Obj(<<>>), conflicts |-> <<>>, audit |-> <<>>,
         uuids |-> 0, written |-> Obj(<<>>), raised |-> FALSE], 1,
        Steady(rule.then, now))

\* the value entry k of the then clause writes, the entries before it
\* having been carried out
WrittenBy(rule, state, k, now) ==
    ReadPath(AppliedAlone([rule EXCEPT !.then = Obj(SubSeq(rule.then.o, 1, k))],
                          state, now).newState,
             rule.then.o[k].k)

\* the rule, applied to the state on its own, leaves it as it is
LeftAsIs(rule, state, now) ==
    /\ ~AppliedAlone(rule, state, now).raised
    /\ AppliedAlone(rule, state, now).newState = state

\* the rules of call i that have a then clause and whose condition holds on
\* the output of the call
FiringOnOutput(i) ==
    {k \in 1..Len(results[i].config.rules) :
        /\ Truthy(results[i].config.rules[k].then)
        /\ Holds(results[i].config.rules[k], ResultOf(i).output)}

\* the statement for every rule set: after a last sweep without a change
\* every rule that holds on the output leaves it unchanged whenever it is
\* applied, and each of its then entries writes what the output holds there
C34_CommonFixedPoint ==
    \A i \in Calls :
        ~results[i].lastSweepChanged =>
            \A k \in FiringOnOutput(i) : \A now \in 0..MaxClock :
                LET rule == results[i].config.rules[k]
                IN /\ LeftAsIs(rule, ResultOf(i).output, now)
                   /\ \A e \in 1..Len(rule.then.o) :
                        WrittenBy(rule, ResultOf(i).output, e, now)
                            = ReadPath(ResultOf(i).output, rule.then.o[e].k)

\* C34: when apply ends with a sweep that made no change and no rule of the
\* set reads the clock or a random source (no now(), timestamp(), uuid(),
\* Date or Math.random in a condition or a template), every rule whose
\* condition holds on the output leaves the output unchanged when applied
\* to it alone, and each of its then entries that no later entry of the
\* rule overwrites writes the value the output already holds at its path.
C34_PureFixedPoint ==
    \A i \in Calls :
        ~results[i].lastSweepChanged /\ Pure(results[i].config) =>
            \A k \in FiringOnOutput(i) : \A now \in 0..MaxClock :
                LET rule == results[i].config.rules[k]
                IN /\ LeftAsIs(rule, ResultOf(i).output, now)
                   /\ \A e \in 1..Len(rule.then.o) :
                        ~OverwrittenLater(rule.then, e) =>
                            WrittenBy(rule, ResultOf(i).output, e, now)
                                = ReadPath(ResultOf(i).output, rule.then.o[e].k)

\* a call of two rules without builtins has ended after a second sweep that
\* made no change, the first having changed the input, and both rules hold
\* on the output
C34_Witness ==
    \E i \in Calls :
        /\ ~results[i].lastSweepChanged
        /\ Pure(results[i].config)
        /\ ResultOf(i).iterations = 2
        /\ ResultOf(i).output # ResultOf(i).input
        /\ Len(results[i].config.rules) = 2
        /\ FiringOnOutput(i) = {1, 2}

\* the value meets one of the critical bounds of the threshold
MeetsCritical(value, threshold) ==
    \/ AtOrAbove(value, threshold.above)
    \/ AtOrBelow(value, threshold.below)
    \/ AtOrAbove(value, threshold.critical)

\* the value meets one of the warning bounds of the threshold
MeetsWarning(value, threshold) ==
    \/ AtOrAbove(value, threshold.warnAbove)
    \/ AtOrBelow(value, threshold.warnBelow)
    \/ AtOrAbove(value, threshold.warning)

\* C40: for every threshold and number, a value that meets a critical
\* bound (above, below or critical) is classified critical, and a value that
\* meets warning bounds only is classified warning.
C40_SeverityMonotone ==
    severity # "none" =>
        /\ (MeetsCritical(valueIn, thresholdIn) => severity = "critical")
        /\ (MeetsWarning(valueIn, thresholdIn) /\ ~MeetsCritical(valueIn, thresholdIn) =>
                severity = "warning")

\* the execute calls made
ExecuteCalls == 1..Len(callPhase)

\* the service of the document with this id
ServiceOf(id) == spcFile.services[CHOOSE i \in 1..Len(spcFile.services) :
                                      spcFile.services[i].id = id]

\* the services of a type in the document
OfType(type) == {i \in 1..Len(spcFile.services) : spcFile.services[i].type = type}

\* the processors and monitors of a call that ran before its run number j
RanBefore(t, j, type) == {k \in 1..(j - 1) : serviceRuns[t][k].type = type}

\* every processor of the document has run when a monitor of the call runs
ProcessorsBeforeMonitors(t) ==
    \A j \in 1..Len(serviceRuns[t]) :
        serviceRuns[t][j].type = "monitor" =>
            Cardinality(RanBefore(t, j, "processor")) = Cardinality(OfType("processor"))

\* a processor that reads the key a connector of the same call wrote has
\* read what this connector fetched
ProcessorSeesConnector(t) ==
    \A j \in 1..Len(serviceRuns[t]) : \A i \in 1..Len(connectorTasks[t]) :
        /\ serviceRuns[t][j].type = "processor"
        /\ connectorTasks[t][i].how = "written"
        /\ connectorTasks[t][i].resultKey = ServiceOf(serviceRuns[t][j].id).inputKey
        => serviceRuns[t][j].input = connectorTasks[t][i].data

\* C35 as stated: in an execute call every connector task has settled,
\* its data written or its error recorded, before a processor runs, every
\* processor has run before a monitor runs, and a processor whose inputKey
\* is the output key of a connector sees the result of this connector.
C35_PhaseOrder ==
    \A t \in ExecuteCalls :
        /\ serviceRuns[t] # <<>> =>
              \A i \in OfType("connector") :
                  connectorTasks[t][i].how \in {"written", "error"}
        /\ ProcessorsBeforeMonitors(t)
        /\ ProcessorSeesConnector(t)

\* C35: in an execute call every connector task has settled before a
\* processor or monitor runs, its data written, its error recorded, or
\* nothing written when its spec has no url; every processor has run
\* before a monitor runs; and a processor whose inputKey is the output key
\* of a connector that wrote its data sees this data.
C35_PhaseOrderSettled ==
    \A t \in ExecuteCalls :
        /\ serviceRuns[t] # <<>> =>
              \A i \in OfType("connector") :
                  /\ connectorTasks[t][i].at = "settled"
                  /\ connectorTasks[t][i].how \in {"written", "error", "nourl"}
                  /\ connectorTasks[t][i].how = "nourl" <=> spcFile.services[i].url = ""
        /\ ProcessorsBeforeMonitors(t)
        /\ ProcessorSeesConnector(t)

\* the call of the document that lists its processor first has resolved:
\* the processor read what the connector listed after it fetched
C35_Witness ==
    /\ spcFile.services = ProcessorFirstServices
    /\ callPhase = <<"resolved">>
    /\ serviceRuns[1][1] = [id |-> "p1", type |-> "processor", input |-> Served("u1", 1)]
    /\ serviceRuns[1][2].type = "monitor"

\* the tasks of a call whose fetch was rejected or answered with a status
\* that is not ok
FailedFetches(t) ==
    {i \in 1..Len(connectorTasks[t]) :
        /\ connectorTasks[t][i].how = "error"
        /\ connectorTasks[t][i].data \in {Str(<<"HTTP 500">>), Str(<<"request failed">>)}}

\* the call ran everything beside its failed connector and resolved with
\* the state
RanTheRest(t) ==
    /\ \A i \in OfType("connector") : connectorTasks[t][i].at = "settled"
    /\ Cardinality({j \in 1..Len(serviceRuns[t]) : serviceRuns[t][j].type = "processor"})
         = Cardinality(OfType("processor"))
    /\ \A i \in OfType("monitor") :
         HasKey(stateObjects[t], Suffixed(spcFile.services[i].id, "_monitoring"))
    /\ resolvedStates[t] = [object |-> t, shown |-> stateObjects[t]]

\* C36: a connector whose fetch rejects or returns a status that is not ok
\* has its error message under state['<id>_error'] and nothing written
\* under its output key; the call is never stuck, and when it has resolved
\* the other connectors have settled, every processor and monitor has run,
\* and it resolved with the state.
C36_FailureIsolated ==
    \A t \in ExecuteCalls :
        /\ \A i \in FailedFetches(t) :
             /\ Get(stateObjects[t], Suffixed(connectorTasks[t][i].id, "_error"))
                  = connectorTasks[t][i].data
             /\ Get(stateObjects[t], connectorTasks[t][i].resultKey)
                  = Get(spcFile.state, connectorTasks[t][i].resultKey)
        /\ (callPhase[t] # "resolved" => ENABLED NextExecute)
        /\ (callPhase[t] = "resolved" => RanTheRest(t))

\* a resolved call in which the fetch of c1 was rejected and c2 wrote its
\* data, which the monitor then read
C36_Witness ==
    /\ spcFile.services = ProcessorFirstServices
    /\ callPhase = <<"resolved">>
    /\ FailedFetches(1) = {2}
    /\ connectorTasks[1][2].data = Str(<<"request failed">>)
    /\ connectorTasks[1][3].how = "written"
    /\ serviceRuns[1][2].input = Served("u2", 1)

\* C37: in a watch, what a connector of a tick fetched is written into the
\* state object this tick loaded, never into the one of a later tick, and
\* a tick prints the state of its own load and execute.
C37_TicksDoNotInterfere ==
    \A t \in ExecuteCalls :
        /\ \A i \in 1..Len(connectorTasks[t]) :
             connectorTasks[t][i].how = "written" => connectorTasks[t][i].into = t
        /\ (callPhase[t] = "resolved" => resolvedStates[t].object = t)

\* C38: after any sequence of registerService, startService, stopService
\* and runService calls, failed runs and registrations of an id already
\* registered included, an id is in runningServices if and only if the
\* status of its service is 'running'.
C38_RunningIffStatus ==
    \A id \in OsIds : id \in runningServices <=> osServices[id].status = "running"

\* C39: once stopService(id) has returned, no run of the service updates
\* the global state, a connector run started before the stop whose fetch
\* completes after it included.
C39_StoppedDoesNotWrite ==
    \A w \in 1..Len(stateWrites) : stateWrites[w].after # "stop"

====
